---- MODULE Spec2Model ----
(***************************************************************************)
(* Collaborative JSON editor backend: a model of the WebSocket gateway     *)
(* (WebSocketHandler), the room registry (RoomManager), the document store *)
(* (CrdtService) and the Redis replication bus (RedisService), for several *)
(* server instances that share only the bus.                               *)
(*                                                                         *)
(* Text and binary data are sequences of byte values (0..255); a JS string *)
(* that only holds ASCII is the sequence of its character codes.           *)
(***************************************************************************)
EXTENDS Integers, Sequences, FiniteSets, TLC

(***************************************************************************)
(* Bounds of the model.                                                    *)
(***************************************************************************)
\* Number of frames the clients send in one run, over all connections.
MaxFrames == 3

\* Number of frames of one run of the room registry specification (SpecRooms).
MaxRoomFrames == 3

\* Number of frames of one run of the gateway specification (SpecGateway).
MaxGatewayFrames == 3

\* Frames handled in one behaviour of SpecDelivery.
MaxDeliveryFrames == 3

\* Bytes that follow the declared update in an input of SpecDecode.
MaxTrailing == 1

\* Updates applied in one behaviour of SpecMerge.
MaxMergeLen == 4
MaxLwwLen == 3

\* Frames handled in one behaviour of SpecPatch.
MaxPatchFrames == 3

\* Frames sent in a behaviour of SpecDrop.
MaxDropFrames == 4

\* Frames sent in a behaviour of SpecConflict.
MaxConflictFrames == 4

\* Connections Redis drops in a behaviour of SpecRedis.
MaxDrops == 1

\* Calls of subscribe and unsubscribe in a behaviour of SpecBus.
MaxBusCalls == 3

\* Connections a server of SpecProcess has open at a time.
MaxConnections == 1

(***************************************************************************)
(* The universe of the model: instances, connections, rooms.               *)
(***************************************************************************)
Instances == {"i1", "i2"}

\* Connection ids (uuidv4 in the code: all distinct, never reused).
Clients == {"a1", "a2", "b1"}

\* The instance a connection is made to.
InstanceOf(c) == IF c = "b1" THEN "i2" ELSE "i1"

\* Field names of the shared map 'state' and their codes in this model.
Keys == {1, 2}

(***************************************************************************)
(* Byte strings.                                                           *)
(***************************************************************************)
\* String.prototype.trim(): the leading white space characters (ASCII part).
IsWhiteSpace(b) == b \in {9, 10, 11, 12, 13, 32}

RECURSIVE TrimStart(_)
TrimStart(s) ==
  IF s = <<>> THEN <<>>
  ELSE IF IsWhiteSpace(Head(s)) THEN TrimStart(Tail(s)) ELSE s

\* jsonStr.trim().startsWith("{")
LooksLikeJson(bytes) ==
  LET t == TrimStart(bytes) IN t # <<>> /\ Head(t) = 123

\* Little-endian unsigned integer of the n bytes of s that follow offset off.
RECURSIVE ReadUIntLE(_, _, _)
ReadUIntLE(s, off, n) ==
  IF n = 0 THEN 0 ELSE s[off + 1] + 256 * ReadUIntLE(s, off + 1, n - 1)

\* buffer.slice(from, to): the bytes at offsets from .. to-1.
Slice(s, from, to) == SubSeq(s, from + 1, to)

\* buffer.toString("utf8"): the string, as the sequence of its code points.
\* A byte that starts no well-formed sequence, and a sequence that is cut
\* short, become U+FFFD (65533).
ReplacementChar == 65533
Utf8Need(b) == IF b < 128 THEN 0
               ELSE IF b \in 194..223 THEN 1
               ELSE IF b \in 224..239 THEN 2
               ELSE IF b \in 240..244 THEN 3
               ELSE 4
Utf8Cont(lead, k, b) ==
  IF k = 1
  THEN b >= (IF lead = 224 THEN 160 ELSE IF lead = 240 THEN 144 ELSE 128)
       /\ b <= (IF lead = 237 THEN 159 ELSE IF lead = 244 THEN 143 ELSE 191)
  ELSE b \in 128..191
RECURSIVE Utf8Have(_, _, _)
\* The number of continuation bytes after s[1], up to need, that are there.
Utf8Have(s, need, k) ==
  IF k > need \/ k + 1 > Len(s) \/ ~Utf8Cont(s[1], k, s[k + 1]) THEN k - 1
  ELSE Utf8Have(s, need, k + 1)
RECURSIVE utf8ToString(_)
utf8ToString(s) ==
  IF s = <<>> THEN <<>>
  ELSE
    LET b == s[1]
        need == Utf8Need(b)
        have == IF need = 4 THEN 0 ELSE Utf8Have(s, need, 1)
        cp == IF need = 0 THEN b
              ELSE IF need = 4 \/ have < need THEN ReplacementChar
              ELSE IF need = 1 THEN (b - 192) * 64 + (s[2] - 128)
              ELSE IF need = 2
                THEN (b - 224) * 4096 + (s[2] - 128) * 64 + (s[3] - 128)
              ELSE (b - 240) * 262144 + (s[2] - 128) * 4096
                   + (s[3] - 128) * 64 + (s[4] - 128)
    IN <<cp>> \o utf8ToString(SubSeq(s, have + 2, Len(s)))

(***************************************************************************)
(* Base64 (Buffer.toString("base64") and Buffer.from(str, "base64")).      *)
(***************************************************************************)
B64Char(v) ==
  IF v < 26 THEN 65 + v
  ELSE IF v < 52 THEN 97 + (v - 26)
  ELSE IF v < 62 THEN 48 + (v - 52)
  ELSE IF v = 62 THEN 43 ELSE 47

\* The value of a base64 character, -1 for a character outside the alphabet.
B64Val(ch) ==
  IF ch >= 65 /\ ch <= 90 THEN ch - 65
  ELSE IF ch >= 97 /\ ch <= 122 THEN ch - 97 + 26
  ELSE IF ch >= 48 /\ ch <= 57 THEN ch - 48 + 52
  ELSE IF ch = 43 THEN 62
  ELSE IF ch = 47 THEN 63
  ELSE -1

RECURSIVE toBase64(_)
toBase64(b) ==
  IF Len(b) = 0 THEN <<>>
  ELSE IF Len(b) = 1 THEN
    << B64Char(b[1] \div 4), B64Char((b[1] % 4) * 16), 61, 61 >>
  ELSE IF Len(b) = 2 THEN
    << B64Char(b[1] \div 4), B64Char((b[1] % 4) * 16 + b[2] \div 16),
       B64Char((b[2] % 16) * 4), 61 >>
  ELSE
    << B64Char(b[1] \div 4), B64Char((b[1] % 4) * 16 + b[2] \div 16),
       B64Char((b[2] % 16) * 4 + b[3] \div 64), B64Char(b[3] % 64) >>
    \o toBase64(SubSeq(b, 4, Len(b)))

\* The sextets of a base64 string: characters outside the alphabet are
\* skipped and the first '=' ends the data, as Node's decoder does.
RECURSIVE B64Sextets(_)
B64Sextets(s) ==
  IF s = <<>> \/ Head(s) = 61 THEN <<>>
  ELSE IF B64Val(Head(s)) < 0 THEN B64Sextets(Tail(s))
  ELSE <<B64Val(Head(s))>> \o B64Sextets(Tail(s))

RECURSIVE B64Bytes(_)
B64Bytes(v) ==
  IF Len(v) < 2 THEN <<>>
  ELSE IF Len(v) = 2 THEN << v[1] * 4 + v[2] \div 16 >>
  ELSE IF Len(v) = 3 THEN
    << v[1] * 4 + v[2] \div 16, (v[2] % 16) * 16 + v[3] \div 4 >>
  ELSE
    << v[1] * 4 + v[2] \div 16, (v[2] % 16) * 16 + v[3] \div 4,
       (v[3] % 4) * 64 + v[4] >>
    \o B64Bytes(SubSeq(v, 5, Len(v)))

fromBase64(s) == B64Bytes(B64Sextets(s))

(***************************************************************************)
(* The replicated document (Y.Doc with the shared map 'state').            *)
(*                                                                         *)
(* A document is the set of merge operations it has integrated (ops) and   *)
(* the values of the fields of its map (0: the field is not set).  An      *)
(* update, and the encoded state of a document, is the byte string         *)
(*   n, op_1 < ... < op_n, m, key_1, value_1, ..., key_m, value_m          *)
(* so that the empty document encodes to the two bytes 0, 0 as in Yjs.     *)
(***************************************************************************)
EmptyDoc == [ops |-> {}, fields |-> [k \in Keys |-> 0]]

RECURSIVE SortedSeq(_)
SortedSeq(S) ==
  IF S = {} THEN <<>>
  ELSE LET m == CHOOSE x \in S : \A y \in S : x <= y
       IN <<m>> \o SortedSeq(S \ {m})

RECURSIVE FieldBytes(_, _)
FieldBytes(fields, ks) ==
  IF ks = <<>> THEN <<>>
  ELSE << Head(ks), fields[Head(ks)] >> \o FieldBytes(fields, Tail(ks))

\* Y.encodeStateAsUpdate(doc)
encodeStateAsUpdate(doc) ==
  LET set == {k \in Keys : doc.fields[k] # 0}
  IN << Cardinality(doc.ops) >> \o SortedSeq(doc.ops)
     \o << Cardinality(set) >> \o FieldBytes(doc.fields, SortedSeq(set))

\* The decoder of an update: [ok |-> FALSE] where Yjs throws.
YDecode(bytes) ==
  IF Len(bytes) < 2 \/ Len(bytes) < bytes[1] + 2 THEN [ok |-> FALSE]
  ELSE
    LET n   == bytes[1]
        m   == bytes[n + 2]
        opq == SubSeq(bytes, 2, n + 1)
        key(j) == bytes[n + 2 + 2 * j - 1]
        val(j) == bytes[n + 2 + 2 * j]
    IN IF Len(bytes) # n + 2 + 2 * m THEN [ok |-> FALSE]
       ELSE IF \E j \in 1..n : opq[j] = 0 THEN [ok |-> FALSE]
       ELSE IF \E j \in 1..(n - 1) : opq[j] >= opq[j + 1] THEN [ok |-> FALSE]
       ELSE IF \E j \in 1..m : key(j) \notin Keys \/ val(j) = 0
         THEN [ok |-> FALSE]
       ELSE IF \E j \in 1..(m - 1) : key(j) >= key(j + 1) THEN [ok |-> FALSE]
       ELSE [ok |-> TRUE,
             ops |-> {opq[j] : j \in 1..n},
             fields |-> [k \in Keys |->
                          IF \E j \in 1..m : key(j) = k
                          THEN val(CHOOSE j \in 1..m : key(j) = k) ELSE 0]]

Max(a, b) == IF a >= b THEN a ELSE b

\* Y.applyUpdate(doc, update) for a decoded update: the merge of Yjs, which
\* is commutative, associative and idempotent.
YMerge(doc, upd) ==
  [ops |-> doc.ops \cup upd.ops,
   fields |-> [k \in Keys |-> Max(doc.fields[k], upd.fields[k])]]

(***************************************************************************)
(* Wire messages (types/index.ts: MessageType, IMessage).                  *)
(***************************************************************************)
JOIN_ROOM == "join-room"
LEAVE_ROOM == "leave-room"
DOCUMENT_UPDATE == "document-update"
DOCUMENT_STATE == "document-state"
SYNC_UPDATE == "sync-update"
ERROR == "error"
ACK == "ack"

\* The room ids of the model: "r1" and "r2".
R1 == <<114, 49>>
R2 == <<114, 50>>
Rooms == {R1, R2}

\* An absent payload, and a payload {update: <base64 string>}.
NoPayload == [present |-> FALSE, update |-> <<>>]
UpdatePayload(b64) == [present |-> TRUE, update |-> b64]

\* An envelope as the handlers read it; an absent roomId is the empty string.
Envelope(type, roomId, payload) ==
  [type |-> type, roomId |-> roomId, payload |-> payload]

(***************************************************************************)
(* Update payloads of the model (the bytes a client encodes as base64).    *)
(***************************************************************************)
\* Merge updates that carry operation 1, operation 2.
U1 == <<1, 1, 0>>
U2 == <<1, 2, 0>>
\* A field patch: the text {"title":1}
P1 == <<123, 34, 116, 105, 116, 108, 101, 34, 58, 49, 125>>
\* A field patch with two fields: the text {"title":2,"author":2}
P2 == <<123, 34, 116, 105, 116, 108, 101, 34, 58, 50, 44, 34, 97, 117, 116,
        104, 111, 114, 34, 58, 50, 125>>
\* Bytes that are neither a JSON object nor a decodable merge update.
BadUpdate == <<9, 9>>

(***************************************************************************)
(* JSON texts of the model and JSON.parse on them.                         *)
(***************************************************************************)
\* {"type":"
TxtType == <<123, 34, 116, 121, 112, 101, 34, 58, 34>>
\* ","roomId":"
TxtRoom == <<34, 44, 34, 114, 111, 111, 109, 73, 100, 34, 58, 34>>
\* ","payload":{"update":"
TxtUpdate == <<34, 44, 34, 112, 97, 121, 108, 111, 97, 100, 34, 58, 123, 34, 117, 112, 100, 97, 116, 101, 34, 58, 34>>
\* "}   and   "}}
TxtEnd == <<34, 125>>
TxtEnd2 == <<34, 125, 125>>
TxtJoin == <<106, 111, 105, 110, 45, 114, 111, 111, 109>>
TxtLeave == <<108, 101, 97, 118, 101, 45, 114, 111, 111, 109>>
TxtDocUpdate == <<100, 111, 99, 117, 109, 101, 110, 116, 45, 117, 112, 100, 97, 116, 101>>
TxtSync == <<115, 121, 110, 99, 45, 117, 112, 100, 97, 116, 101>>
TxtPing == <<112, 105, 110, 103>>
\* {not json
TxtNotJson == <<123, 110, 111, 116, 32, 106, 115, 111, 110>>

\* {"type":"<t>","roomId":"<r>"}
JsonText(t, r) == TxtType \o t \o TxtRoom \o r \o TxtEnd
\* {"type":"<t>"}
JsonTextNoRoom(t) == TxtType \o t \o TxtEnd
\* {"type":"document-update","roomId":"<r>","payload":{"update":"<b64>"}}
JsonUpdateText(r, b64) ==
  TxtType \o TxtDocUpdate \o TxtRoom \o r \o TxtUpdate \o b64 \o TxtEnd2

UpdateUniverse == {U1, U2, P1, P2, BadUpdate, <<>>}

\* The envelopes of the model with their JSON texts.
EnvelopeTexts ==
  {[text |-> JsonText(TxtJoin, r), value |-> Envelope(JOIN_ROOM, r, NoPayload)]
     : r \in Rooms}
  \cup {[text |-> JsonTextNoRoom(TxtJoin),
         value |-> Envelope(JOIN_ROOM, <<>>, NoPayload)]}
  \cup {[text |-> JsonText(TxtLeave, r),
         value |-> Envelope(LEAVE_ROOM, r, NoPayload)] : r \in Rooms}
  \cup {[text |-> JsonText(TxtSync, r),
         value |-> Envelope(SYNC_UPDATE, r, NoPayload)] : r \in Rooms}
  \cup {[text |-> JsonText(TxtPing, r),
         value |-> Envelope("ping", r, NoPayload)] : r \in Rooms}
  \cup {[text |-> JsonUpdateText(ru[1], toBase64(ru[2])),
         value |-> Envelope(DOCUMENT_UPDATE, ru[1],
                            UpdatePayload(toBase64(ru[2])))]
          : ru \in Rooms \X UpdateUniverse}

\* The field patches of the model with their JSON texts.
PatchTexts == {[text |-> P1, value |-> [k \in {1} |-> 1]],
               [text |-> P2, value |-> [k \in {1, 2} |-> 2]]}

\* JSON.parse: the value of each JSON text of the model; any other text is
\* a SyntaxError ([ok |-> FALSE]).
\* JSON.parse skips the white space of JSON (tab, line feed, carriage return,
\* space) around the value.
IsJsonWhiteSpace(b) == b \in {9, 10, 13, 32}

RECURSIVE JsonStrip(_)
JsonStrip(s) ==
  IF s = <<>> THEN <<>>
  ELSE IF IsJsonWhiteSpace(Head(s)) THEN JsonStrip(Tail(s))
  ELSE IF IsJsonWhiteSpace(s[Len(s)]) THEN JsonStrip(SubSeq(s, 1, Len(s) - 1))
  ELSE s

JSONparse(text) ==
  LET t == JsonStrip(text) IN
  IF \E e \in EnvelopeTexts : e.text = t
  THEN [ok |-> TRUE, value |-> (CHOOSE e \in EnvelopeTexts : e.text = t).value]
  ELSE IF \E e \in PatchTexts : e.text = t
  THEN [ok |-> TRUE, value |-> (CHOOSE e \in PatchTexts : e.text = t).value]
  ELSE [ok |-> FALSE]

(***************************************************************************)
(* Binary frames.                                                          *)
(***************************************************************************)
\* The 8 timestamp bytes of the binary frames of the model.
Timestamp8 == <<7, 0, 0, 0, 0, 0, 0, 0>>

\* A frame with kind byte k, declared room length L, room bytes r, declared
\* update length U, update bytes u and trailing bytes x.
BinaryFrame(k, L, r, U, u, x) ==
  <<k, L % 256, L \div 256>> \o r \o Timestamp8
  \o <<U % 256, (U \div 256) % 256, 0, 0>> \o u \o x

\* Minimum length of a binary frame: 1 + 2 + 0 + 8 + 4.
MinBinaryLen == 15

\* A decoder that reads the room length big-endian: the faulty variant C11 is
\* tried against.
decodeBinaryDocumentUpdate_bigEndian(buffer) ==
  IF Len(buffer) < MinBinaryLen THEN [ok |-> FALSE]
  ELSE IF buffer[1] # 1 THEN [ok |-> FALSE]
  ELSE
    LET roomLen == buffer[2] * 256 + buffer[3]
        o1 == 3
        o2 == o1 + roomLen
        o3 == o2 + 8
        o4 == o3 + 4
    IN IF o1 + roomLen > Len(buffer) THEN [ok |-> FALSE]
       ELSE IF o2 + 8 > Len(buffer) THEN [ok |-> FALSE]
       ELSE IF o3 + 4 > Len(buffer) THEN [ok |-> FALSE]
       ELSE IF o4 + ReadUIntLE(buffer, o3, 4) # Len(buffer) THEN [ok |-> FALSE]
       ELSE [ok |-> TRUE,
             value |-> Envelope(DOCUMENT_UPDATE,
                         utf8ToString(Slice(buffer, o1, o2)),
                         UpdatePayload(
                           toBase64(Slice(buffer, o4, Len(buffer)))))]

\* A decoder that tolerates bytes after the declared update (the final length
\* test with > in place of !==): the faulty variant C10 is tried against.
decodeBinaryDocumentUpdate_lenient(buffer) ==
  IF Len(buffer) < MinBinaryLen THEN [ok |-> FALSE]
  ELSE IF buffer[1] # 1 THEN [ok |-> FALSE]
  ELSE
    LET roomLen == ReadUIntLE(buffer, 1, 2)
        o1 == 3
        o2 == o1 + roomLen
        o3 == o2 + 8
        o4 == o3 + 4
        end == o4 + ReadUIntLE(buffer, o3, 4)
    IN IF o1 + roomLen > Len(buffer) THEN [ok |-> FALSE]
       ELSE IF o2 + 8 > Len(buffer) THEN [ok |-> FALSE]
       ELSE IF o3 + 4 > Len(buffer) THEN [ok |-> FALSE]
       ELSE IF end > Len(buffer) THEN [ok |-> FALSE]
       ELSE [ok |-> TRUE,
             value |-> Envelope(DOCUMENT_UPDATE,
                         utf8ToString(Slice(buffer, o1, o2)),
                         UpdatePayload(toBase64(Slice(buffer, o4, end))))]

\* decodeBinaryDocumentUpdate(data): [ok |-> FALSE] is the null result.
decodeBinaryDocumentUpdate(buffer) ==
  IF Len(buffer) < MinBinaryLen THEN [ok |-> FALSE]
  ELSE IF buffer[1] # 1 THEN [ok |-> FALSE]
  ELSE
    LET roomLen == ReadUIntLE(buffer, 1, 2)
        o1 == 3
        o2 == o1 + roomLen
        o3 == o2 + 8
        o4 == o3 + 4
    IN IF o1 + roomLen > Len(buffer) THEN [ok |-> FALSE]
       ELSE IF o2 + 8 > Len(buffer) THEN [ok |-> FALSE]
       ELSE IF o3 + 4 > Len(buffer) THEN [ok |-> FALSE]
       ELSE IF o4 + ReadUIntLE(buffer, o3, 4) # Len(buffer) THEN [ok |-> FALSE]
       ELSE [ok |-> TRUE,
             value |-> Envelope(DOCUMENT_UPDATE,
                         utf8ToString(Slice(buffer, o1, o2)),
                         UpdatePayload(
                           toBase64(Slice(buffer, o4, Len(buffer)))))]

(***************************************************************************)
(* Messages sent to clients (the JSON the gateway writes to a socket).     *)
(***************************************************************************)
Msg(type, roomId, clientId, update, text, joined, left) ==
  [type |-> type, roomId |-> roomId, clientId |-> clientId, update |-> update,
   text |-> text, clientJoined |-> joined, clientLeft |-> left]

StateMsg(roomId, clientId, state) ==
  Msg(DOCUMENT_STATE, roomId, clientId, state, "", "", "")
AckYouJoined(roomId, clientId) ==
  Msg(ACK, roomId, clientId, <<>>, "You joined the room", clientId, "")
AckJoined(roomId, clientId) ==
  Msg(ACK, roomId, "", <<>>, "Client joined the room", clientId, "")
AckLeft(roomId, clientId) ==
  Msg(ACK, roomId, "", <<>>, "Client left the room", "", clientId)
UpdateMsg(roomId, clientId, update) ==
  Msg(DOCUMENT_UPDATE, roomId, clientId, update, "", "", "")
ErrorMsg(text) == Msg(ERROR, <<>>, "", <<>>, text, "", "")

\* The message an instance publishes on a room's channel.
SyncMsg(roomId, clientId, update, instanceId) ==
  [type |-> SYNC_UPDATE, roomId |-> roomId, clientId |-> clientId,
   update |-> update, instanceId |-> instanceId]

(***************************************************************************)
(* The state of one instance, as the handlers see it: a record st with     *)
(*   rooms, roomClients, clients     RoomManager's maps                    *)
(*   documents                       CrdtService's map                     *)
(*   clientConnections               WebSocketHandler's map, with each     *)
(*                                   socket's readyState                   *)
(*   subscriptions                   the keys of RedisService's map        *)
(*   out                             what the running handler has sent to  *)
(*                                   each client, in order                 *)
(* A map entry that does not exist has exists = FALSE.                     *)
(***************************************************************************)
NoRoom == [exists |-> FALSE, clientCount |-> 0, updatesCount |-> 0,
           lastUpdateAt |-> FALSE]
NoMembers == [exists |-> FALSE, members |-> {}]
NoClient == [exists |-> FALSE, roomId |-> <<>>]
NoDoc == [exists |-> FALSE, doc |-> EmptyDoc]

\* ws.send(...) on the socket of clientId: delivered when the socket is open.
Send(st, clientId, msg) ==
  IF st.clientConnections[clientId] = "open"
  THEN [st EXCEPT !.out[clientId] = Append(@, msg)]
  ELSE st

(***************************************************************************)
(* CrdtService                                                             *)
(***************************************************************************)
getOrCreateDocument(st, roomId) ==
  IF ~st.documents[roomId].exists
  THEN [st EXCEPT !.documents[roomId] = [exists |-> TRUE, doc |-> EmptyDoc]]
  ELSE st

\* An applyUpdate that overwrites the document with the update instead of
\* merging it in: the faulty variant C14 is tried against.
applyUpdate_replace(st, roomId, update) ==
  IF Len(update) = 0 THEN [st |-> st, threw |-> FALSE]
  ELSE
    LET s1 == getOrCreateDocument(st, roomId)
        u  == YDecode(update)
    IN IF ~u.ok THEN [st |-> s1, threw |-> TRUE]
       ELSE [st |-> [s1 EXCEPT !.documents[roomId].doc =
                                 [ops |-> u.ops, fields |-> u.fields]],
             threw |-> FALSE]

\* applyUpdate: [st, threw].  An empty update is logged and not applied.
applyUpdate(st, roomId, update) ==
  IF Len(update) = 0 THEN [st |-> st, threw |-> FALSE]
  ELSE
    LET s1 == getOrCreateDocument(st, roomId)
        u  == YDecode(update)
    IN IF ~u.ok THEN [st |-> s1, threw |-> TRUE]
       ELSE [st |-> [s1 EXCEPT !.documents[roomId].doc = YMerge(@, u)],
             threw |-> FALSE]

\* An applyJsonUpdate that stops after the first field of the patch: the
\* faulty variant C15 is tried against.
applyJsonUpdate_partial(st, roomId, updateObj) ==
  LET s1 == getOrCreateDocument(st, roomId)
      first == CHOOSE k \in DOMAIN updateObj : \A j \in DOMAIN updateObj : k <= j
  IN [st |-> [s1 EXCEPT !.documents[roomId].doc.fields[first] = updateObj[first]],
      threw |-> FALSE]

\* An applyJsonUpdate that keeps the larger of a field's value and the
\* patch's, so that the order of two patches does not matter: the faulty
\* variant C33 is tried against.
applyJsonUpdate_max(st, roomId, updateObj) ==
  LET s1 == getOrCreateDocument(st, roomId)
  IN [st |-> [s1 EXCEPT !.documents[roomId].doc.fields =
                [k \in Keys |-> IF k \in DOMAIN updateObj
                                THEN Max(@[k], updateObj[k]) ELSE @[k]]],
      threw |-> FALSE]

\* An applyJsonUpdate that replaces the map by the patch, clearing the fields
\* the patch does not name: the faulty variant C35 is tried against.
applyJsonUpdate_reset(st, roomId, updateObj) ==
  LET s1 == getOrCreateDocument(st, roomId)
  IN [st |-> [s1 EXCEPT !.documents[roomId].doc.fields =
                [k \in Keys |-> IF k \in DOMAIN updateObj
                                THEN updateObj[k] ELSE 0]],
      threw |-> FALSE]

\* applyJsonUpdate: every field of the patch is set in one transaction.
applyJsonUpdate(st, roomId, updateObj) ==
  LET s1 == getOrCreateDocument(st, roomId)
  IN [st |-> [s1 EXCEPT !.documents[roomId].doc.fields =
                [k \in Keys |-> IF k \in DOMAIN updateObj
                                THEN updateObj[k] ELSE @[k]]],
      threw |-> FALSE]

\* getDocumentState: [st, state].
getDocumentState(st, roomId) ==
  LET s1 == getOrCreateDocument(st, roomId)
  IN [st |-> s1, state |-> encodeStateAsUpdate(s1.documents[roomId].doc)]

deleteDocument(st, roomId) ==
  IF st.documents[roomId].exists
  THEN [st EXCEPT !.documents[roomId] = NoDoc]
  ELSE st

(***************************************************************************)
(* RoomManager                                                             *)
(***************************************************************************)
getOrCreateRoom(st, roomId) ==
  IF ~st.rooms[roomId].exists
  THEN getOrCreateDocument(
         [st EXCEPT !.rooms[roomId] =
                      [exists |-> TRUE, clientCount |-> 0, updatesCount |-> 0,
                       lastUpdateAt |-> FALSE],
                    !.roomClients[roomId] = [exists |-> TRUE, members |-> {}]],
         roomId)
  ELSE st

addClientToRoom(st, clientId, roomId) ==
  LET s1 == getOrCreateRoom(st, roomId)
      s2 == [s1 EXCEPT !.clients[clientId] =
                         [exists |-> TRUE, roomId |-> roomId],
                       !.roomClients[roomId].members = @ \cup {clientId}]
  IN [s2 EXCEPT !.rooms[roomId].clientCount =
                  Cardinality(s2.roomClients[roomId].members)]

deleteRoom(st, roomId) ==
  deleteDocument([st EXCEPT !.rooms[roomId] = NoRoom,
                            !.roomClients[roomId] = NoMembers],
                 roomId)

removeClientFromRoom(st, clientId) ==
  LET client == st.clients[clientId] IN
  IF ~client.exists THEN st
  ELSE
    LET s1 == IF st.roomClients[client.roomId].exists
              THEN [st EXCEPT !.roomClients[client.roomId].members =
                                @ \ {clientId}]
              ELSE st
        size == IF s1.roomClients[client.roomId].exists
                THEN Cardinality(s1.roomClients[client.roomId].members)
                ELSE 0
        s2 == IF s1.rooms[client.roomId].exists
              THEN LET s1c == [s1 EXCEPT !.rooms[client.roomId].clientCount = size]
                   IN IF size = 0 THEN deleteRoom(s1c, client.roomId) ELSE s1c
              ELSE s1
    IN [s2 EXCEPT !.clients[clientId] = NoClient]

\* The ids of the clients getClientsInRoom returns.
getClientsInRoom(st, roomId) ==
  IF st.roomClients[roomId].exists
  THEN {id \in st.roomClients[roomId].members : st.clients[id].exists}
  ELSE {}

recordUpdate(st, roomId) ==
  IF st.rooms[roomId].exists
  THEN [st EXCEPT !.rooms[roomId].updatesCount = @ + 1,
                  !.rooms[roomId].lastUpdateAt = TRUE]
  ELSE st

(***************************************************************************)
(* WebSocketHandler                                                        *)
(***************************************************************************)
\* A handler that is suspended on the bus: on redis.subscribe (handleJoinRoom)
\* or on redis.publish (handleDocumentUpdate).
\* ok: whether the awaited publish returns (TRUE) or throws; it is set when
\* the call is made.
NoSusp == [kind |-> "none", clientId |-> "", roomId |-> <<>>, update |-> <<>>,
           ok |-> TRUE]
Susp(kind, clientId, roomId, update) ==
  [kind |-> kind, clientId |-> clientId, roomId |-> roomId, update |-> update,
   ok |-> TRUE]

\* A broadcast that ignores excludeClientId: the faulty variant C16 is tried
\* against.
broadcastToRoom_all(st, roomId, message, excludeClientId) ==
  LET to == {id \in getClientsInRoom(st, roomId) :
               st.clientConnections[id] = "open"}
  IN [st EXCEPT !.out = [id \in DOMAIN @ |->
                           IF id \in to THEN Append(@[id], message) ELSE @[id]]]

\* broadcastToRoom; excludeClientId = "" when no client is excluded.
broadcastToRoom(st, roomId, message, excludeClientId) ==
  LET to == {id \in getClientsInRoom(st, roomId) :
               /\ ~(excludeClientId # "" /\ id = excludeClientId)
               /\ st.clientConnections[id] = "open"}
  IN [st EXCEPT !.out = [id \in DOMAIN @ |->
                           IF id \in to THEN Append(@[id], message) ELSE @[id]]]

sendError(st, clientId, errorMessage) == Send(st, clientId, ErrorMsg(errorMessage))

\* A join whose 'joined' broadcast excludes nobody: the faulty variant C31 is
\* tried against.
handleJoinRoom_echoJoin(st, clientId, message) ==
  IF message.roomId = <<>>
  THEN [st |-> sendError(st, clientId, "Missing roomId"), susp |-> NoSusp]
  ELSE
    LET roomId == message.roomId
        s1 == addClientToRoom(st, clientId, roomId)
        ds == getDocumentState(s1, roomId)
        s2 == Send(ds.st, clientId,
                   StateMsg(roomId, clientId, toBase64(ds.state)))
        s3 == Send(s2, clientId, AckYouJoined(roomId, clientId))
        s4 == broadcastToRoom(s3, roomId, AckJoined(roomId, clientId), "")
    IN IF roomId \notin s4.subscriptions
       THEN [st |-> [s4 EXCEPT !.subscriptions = @ \cup {roomId}],
             susp |-> Susp("subscribe", clientId, roomId, <<>>)]
       ELSE [st |-> s4, susp |-> NoSusp]

\* A join that subscribes without looking at the channels already subscribed:
\* the faulty variant C19 is tried against.
handleJoinRoom_resubscribe(st, clientId, message) ==
  IF message.roomId = <<>>
  THEN [st |-> sendError(st, clientId, "Missing roomId"), susp |-> NoSusp]
  ELSE
    LET roomId == message.roomId
        s1 == addClientToRoom(st, clientId, roomId)
        ds == getDocumentState(s1, roomId)
        s2 == Send(ds.st, clientId,
                   StateMsg(roomId, clientId, toBase64(ds.state)))
        s3 == Send(s2, clientId, AckYouJoined(roomId, clientId))
        s4 == broadcastToRoom(s3, roomId, AckJoined(roomId, clientId), clientId)
    IN [st |-> [s4 EXCEPT !.subscriptions = @ \cup {roomId}],
        susp |-> Susp("subscribe", clientId, roomId, <<>>)]

\* handleJoinRoom up to its await of redis.subscribe: [st, susp].
handleJoinRoom(st, clientId, message) ==
  IF message.roomId = <<>>
  THEN [st |-> sendError(st, clientId, "Missing roomId"), susp |-> NoSusp]
  ELSE
    LET roomId == message.roomId
        s1 == addClientToRoom(st, clientId, roomId)
        ds == getDocumentState(s1, roomId)
        s2 == Send(ds.st, clientId, StateMsg(roomId, clientId, toBase64(ds.state)))
        s3 == Send(s2, clientId, AckYouJoined(roomId, clientId))
        s4 == broadcastToRoom(s3, roomId, AckJoined(roomId, clientId), clientId)
    IN IF roomId \notin s4.subscriptions
       THEN [st |-> [s4 EXCEPT !.subscriptions = @ \cup {roomId}],
             susp |-> Susp("subscribe", clientId, roomId, <<>>)]
       ELSE [st |-> s4, susp |-> NoSusp]

\* A join that says nothing when its subscribe fails: the faulty variant C20
\* is tried against.
handleJoinRoomResume_silent(st, susp, ok) == st

\* The rest of handleJoinRoom, once redis.subscribe has returned or thrown.
handleJoinRoomResume(st, susp, ok) ==
  IF ok THEN st
  ELSE sendError(st, susp.clientId, "Failed to subscribe to room updates")

handleLeaveRoom(st, clientId, message) ==
  IF message.roomId = <<>> THEN st
  ELSE broadcastToRoom(removeClientFromRoom(st, clientId), message.roomId,
                       AckLeft(message.roomId, clientId), clientId)

\* The update of a DOCUMENT_UPDATE or of a bus message, applied: by the
\* field-patch path when its bytes look like JSON and parse, else by the
\* merge path.  [st, threw, path]; path is the method of CrdtService called.
applyDecoded(st, roomId, buffer) ==
  LET parsed == IF LooksLikeJson(buffer) THEN JSONparse(buffer)
                ELSE [ok |-> FALSE]
  IN IF parsed.ok
     THEN LET r == applyJsonUpdate(st, roomId, parsed.value)
          IN [st |-> r.st, threw |-> r.threw, path |-> "applyJsonUpdate"]
     ELSE LET r == applyUpdate(st, roomId, buffer)
          IN [st |-> r.st, threw |-> r.threw, path |-> "applyUpdate"]

\* The method of CrdtService that handleDocumentUpdate (fromClient) or
\* handleRedisUpdate calls for the decoded bytes of an update; "none" when
\* handleDocumentUpdate returns at its test for an empty update.
appliedThrough(st, roomId, buffer, fromClient) ==
  IF /\ fromClient
     /\ ~(LooksLikeJson(buffer) /\ JSONparse(buffer).ok)
     /\ Len(buffer) = 0
  THEN "none"
  ELSE applyDecoded(st, roomId, buffer).path

\* A handler that goes on after the update failed to apply, as if the error
\* had been caught around the apply alone: the faulty variant C24 is tried
\* against.
handleDocumentUpdate_ignoreThrow(st, clientId, message) ==
  IF message.roomId = <<>> \/ ~message.payload.present
  THEN [st |-> st, susp |-> NoSusp]
  ELSE
    LET roomId == message.roomId
        buffer == fromBase64(message.payload.update)
        isJson == LooksLikeJson(buffer) /\ JSONparse(buffer).ok
    IN IF ~isJson /\ Len(buffer) = 0 THEN [st |-> st, susp |-> NoSusp]
       ELSE [st |-> recordUpdate(applyDecoded(st, roomId, buffer).st, roomId),
             susp |-> Susp("publish", clientId, roomId,
                           message.payload.update)]

\* A handler without its own test for an empty update, which leaves the test
\* to applyUpdate: the faulty variant C23 is tried against.
handleDocumentUpdate_noEmptyCheck(st, clientId, message) ==
  IF message.roomId = <<>> \/ ~message.payload.present
  THEN [st |-> st, susp |-> NoSusp]
  ELSE
    LET roomId == message.roomId
        r == applyDecoded(st, roomId, fromBase64(message.payload.update))
    IN IF r.threw THEN [st |-> r.st, susp |-> NoSusp]
       ELSE [st |-> recordUpdate(r.st, roomId),
             susp |-> Susp("publish", clientId, roomId,
                           message.payload.update)]

\* handleDocumentUpdate up to its await of redis.publish: [st, susp].
handleDocumentUpdate(st, clientId, message) ==
  IF message.roomId = <<>> \/ ~message.payload.present
  THEN [st |-> st, susp |-> NoSusp]
  ELSE
    LET roomId == message.roomId
        buffer == fromBase64(message.payload.update)
        isJson == LooksLikeJson(buffer) /\ JSONparse(buffer).ok
    IN IF ~isJson /\ Len(buffer) = 0 THEN [st |-> st, susp |-> NoSusp]
       ELSE
         LET r == applyDecoded(st, roomId, buffer)
         IN IF r.threw THEN [st |-> r.st, susp |-> NoSusp]
            ELSE [st |-> recordUpdate(r.st, roomId),
                  susp |-> Susp("publish", clientId, roomId,
                                message.payload.update)]

\* A handler that a failed publish ends, as if the error reached the outer
\* catch: the faulty variant C17 is tried against.
handleDocumentUpdateResume_failStop(st, susp) ==
  IF susp.ok
  THEN broadcastToRoom(st, susp.roomId,
                       UpdateMsg(susp.roomId, susp.clientId, susp.update),
                       susp.clientId)
  ELSE st

\* A local broadcast that excludes nobody: the faulty variant C5 is tried
\* against.
handleDocumentUpdateResume_echo(st, susp) ==
  broadcastToRoom(st, susp.roomId,
                  UpdateMsg(susp.roomId, susp.clientId, susp.update), "")

\* The rest of handleDocumentUpdate, once redis.publish has returned or
\* thrown: the broadcast to the other local clients of the room.
handleDocumentUpdateResume(st, susp) ==
  broadcastToRoom(st, susp.roomId,
                  UpdateMsg(susp.roomId, susp.clientId, susp.update),
                  susp.clientId)

\* A bus handler without the instanceId test: the faulty variant C4 is tried
\* against.
handleRedisUpdate_noSelfCheck(st, roomId, update, instanceId) ==
  LET r == applyDecoded(st, roomId, fromBase64(update.update))
  IN IF r.threw THEN r.st
     ELSE broadcastToRoom(recordUpdate(r.st, roomId), roomId,
                          UpdateMsg(roomId, update.clientId, update.update),
                          "")

\* A bus handler that does not count the update it applies: the faulty
\* variant C36 is tried against.
handleRedisUpdate_noRecord(st, roomId, update, instanceId) ==
  IF update.instanceId = instanceId THEN st
  ELSE
    LET r == applyDecoded(st, roomId, fromBase64(update.update))
    IN IF r.threw THEN r.st
       ELSE broadcastToRoom(r.st, roomId,
                            UpdateMsg(roomId, update.clientId, update.update),
                            "")

\* handleRedisUpdate(roomId, redisMessage) on instance instanceId.
handleRedisUpdate(st, roomId, update, instanceId) ==
  IF update.instanceId = instanceId THEN st
  ELSE
    LET r == applyDecoded(st, roomId, fromBase64(update.update))
    IN IF r.threw THEN r.st
       ELSE broadcastToRoom(recordUpdate(r.st, roomId), roomId,
                            UpdateMsg(roomId, update.clientId, update.update),
                            "")

\* A bus handler that publishes the update it has applied under its own
\* instance id: the faulty variant C37 is tried against.
handleRedisUpdatePublishes_relay(st, roomId, update, instanceId) ==
  IF update.instanceId = instanceId THEN <<>>
  ELSE <<[update EXCEPT !.instanceId = instanceId]>>

\* The messages handleRedisUpdate hands to redis.publish: the handler applies,
\* counts and broadcasts locally, and has no call of publish.
handleRedisUpdatePublishes(st, roomId, update, instanceId) == <<>>

\* The message of a frame: JSON when the text looks like JSON and parses,
\* else the binary decode; [ok |-> FALSE] when neither decodes.
\* data = [str, bytes]: str when the socket hands the frame over as a string.
decodeData(data) ==
  IF data.str THEN JSONparse(data.bytes)
  ELSE
    LET parsed == IF LooksLikeJson(data.bytes) THEN JSONparse(data.bytes)
                  ELSE [ok |-> FALSE]
    IN IF parsed.ok THEN parsed ELSE decodeBinaryDocumentUpdate(data.bytes)

\* A gateway that drops a frame it cannot decode without answering: the
\* faulty variant C9 is tried against.
handleMessage_silent(st, clientId, data) ==
  IF st.clientConnections[clientId] \notin {"open", "closing"}
  THEN [st |-> st, susp |-> NoSusp]
  ELSE
    LET m == decodeData(data) IN
    IF ~m.ok THEN [st |-> st, susp |-> NoSusp]
    ELSE IF m.value.type = JOIN_ROOM THEN handleJoinRoom(st, clientId, m.value)
    ELSE IF m.value.type = LEAVE_ROOM
      THEN [st |-> handleLeaveRoom(st, clientId, m.value), susp |-> NoSusp]
    ELSE IF m.value.type = DOCUMENT_UPDATE
      THEN handleDocumentUpdate(st, clientId, m.value)
    ELSE [st |-> st, susp |-> NoSusp]

\* A gateway that applies a SYNC_UPDATE a client sends as it applies a
\* DOCUMENT_UPDATE, and answers a frame of an unknown kind with an ERROR: the
\* faulty variant C32 is tried against.
handleMessage_routeAll(st, clientId, data) ==
  IF st.clientConnections[clientId] \notin {"open", "closing"}
  THEN [st |-> st, susp |-> NoSusp]
  ELSE
    LET m == decodeData(data) IN
    IF ~m.ok
    THEN [st |-> sendError(st, clientId, "Invalid message format"),
          susp |-> NoSusp]
    ELSE IF m.value.type = JOIN_ROOM THEN handleJoinRoom(st, clientId, m.value)
    ELSE IF m.value.type = LEAVE_ROOM
      THEN [st |-> handleLeaveRoom(st, clientId, m.value), susp |-> NoSusp]
    ELSE IF m.value.type \in {DOCUMENT_UPDATE, SYNC_UPDATE}
      THEN handleDocumentUpdate(st, clientId, m.value)
    ELSE [st |-> sendError(st, clientId, "Unknown message type"),
          susp |-> NoSusp]

\* handleMessage up to the first await of the handler it calls: [st, susp].
handleMessage(st, clientId, data) ==
  IF st.clientConnections[clientId] \notin {"open", "closing"}
  THEN [st |-> st, susp |-> NoSusp]
  ELSE
    LET m == decodeData(data) IN
    IF ~m.ok
    THEN [st |-> sendError(st, clientId, "Invalid message format"),
          susp |-> NoSusp]
    ELSE IF m.value.type = JOIN_ROOM THEN handleJoinRoom(st, clientId, m.value)
    ELSE IF m.value.type = LEAVE_ROOM
      THEN [st |-> handleLeaveRoom(st, clientId, m.value), susp |-> NoSusp]
    ELSE IF m.value.type = DOCUMENT_UPDATE
      THEN handleDocumentUpdate(st, clientId, m.value)
    ELSE [st |-> st, susp |-> NoSusp]

handleConnection(st, clientId) ==
  [st EXCEPT !.clientConnections[clientId] = "open"]

handleDisconnect(st, clientId) ==
  LET client == st.clients[clientId]
      s1 == IF client.exists
            THEN handleLeaveRoom(st, clientId,
                                 Envelope(LEAVE_ROOM, client.roomId, NoPayload))
            ELSE st
  IN [s1 EXCEPT !.clientConnections[clientId] = "gone"]

(***************************************************************************)
(* Frames the clients of the model send.                                   *)
(***************************************************************************)
Text(bytes) == [str |-> FALSE, bytes |-> bytes]

FrameData(f) ==
  CASE f = "join_r1" -> Text(JsonText(TxtJoin, R1))
    [] f = "join_r2" -> Text(JsonText(TxtJoin, R2))
    [] f = "join_noroom" -> Text(JsonTextNoRoom(TxtJoin))
    [] f = "leave_r1" -> Text(JsonText(TxtLeave, R1))
    [] f = "leave_r2" -> Text(JsonText(TxtLeave, R2))
    [] f = "sync_r1" -> Text(JsonText(TxtSync, R1))
    [] f = "ping_r1" -> Text(JsonText(TxtPing, R1))
    [] f = "update_r1_U1" -> Text(JsonUpdateText(R1, toBase64(U1)))
    [] f = "update_r1_P1" -> Text(JsonUpdateText(R1, toBase64(P1)))
    [] f = "update_r1_P2" -> Text(JsonUpdateText(R1, toBase64(P2)))
    [] f = "update_r1_bad" -> Text(JsonUpdateText(R1, toBase64(BadUpdate)))
    [] f = "update_r1_empty" -> Text(JsonUpdateText(R1, <<>>))
    [] f = "binary_r1_U2" -> Text(BinaryFrame(1, 2, R1, 3, U2, <<>>))
    [] f = "binary_r2_U1" -> Text(BinaryFrame(1, 2, R2, 3, U1, <<>>))
    [] f = "notjson" -> Text(TxtNotJson)
    [] f = "notjson_str" -> [str |-> TRUE, bytes |-> TxtNotJson]
    \* declared update length 5, 3 update bytes present
    [] f = "binary_truncated" -> Text(BinaryFrame(1, 2, R2, 5, U1, <<>>))
    \* two bytes after the declared update
    [] f = "binary_trailing" -> Text(BinaryFrame(1, 2, R2, 3, U1, <<0, 0>>))
    \* declared room length 40, 2 room bytes present
    [] f = "binary_roomlen" -> Text(BinaryFrame(1, 40, R2, 3, U1, <<>>))
    \* kind byte 2
    [] f = "binary_kind2" -> Text(BinaryFrame(2, 2, R2, 3, U1, <<>>))
    \* shorter than the fixed part of a frame
    [] f = "binary_short" -> Text(<<1, 2, 0, 114, 50>>)

(***************************************************************************)
(* The system: the instances and the bus.                                  *)
(***************************************************************************)
VARIABLES
  rooms,              \* [instance][roomId]: RoomManager.rooms
  roomClients,        \* [instance][roomId]: RoomManager.roomClients
  clients,            \* [instance][clientId]: RoomManager.clients
  documents,          \* [instance][roomId]: CrdtService.documents
  clientConnections,  \* [instance][clientId]: "none" (not connected yet),
                      \*   "open", "closing" (in the map, socket not open),
                      \*   "gone" (removed from the map)
  subscriptions,      \* [instance]: the channels of RedisService.subscriptions
  channels,           \* [instance]: the channels Redis delivers to the instance
  bus,                \* [instance]: messages published and not yet delivered
  pending,            \* [instance]: the suspended handlers, by kind, in order
  sent,               \* [clientId]: the messages the last step sent to it
  last,               \* the last step
  nframes,            \* frames sent so far
  everDeleted,        \* [instance]: the rooms the instance has deleted so far
  faults,             \* whether a publish or a subscribe has failed so far
  threwSeen,          \* the connections one of whose updates threw when it
                      \*   was applied
  invalidSeen,        \* the connections that have sent a frame that did not
                      \*   decode
  subscribeCalls,     \* [instance][roomId]: calls of the transport's subscribe
                      \*   for the room's channel so far
  legs,               \* RedisService's two Redis clients, "client" (the
                      \*   subscriber) and "pubClient": the state of each
                      \*   one's socket, the retries of its reconnect loop
                      \*   and the delay the loop last scheduled
  redisCall,          \* the connect() or disconnect() call of RedisService
                      \*   under way or last made
  drops,              \* connections Redis has dropped so far
  callbacks,          \* [channel]: RedisService.subscriptions with its values,
                      \*   the callback registered for the channel
  listeners,          \* [channel]: the callbacks the subscriber client calls
                      \*   for a message on the channel, in order
  issued,             \* [channel]: client.subscribe calls for the channel
  commands,           \* the subscribe and unsubscribe commands the subscriber
                      \*   client has not answered yet, in order
  lastCall,           \* the last call of subscribe or unsubscribe
  ncalls,             \* calls of subscribe and unsubscribe so far
  proc,               \* the process of index.ts: its phase and exit code, its
                      \*   servers, their open connections and the timer of
                      \*   its SIGINT handler
  arg,                \* the argument of the function a function specification
                      \*   applies (SpecDecode, SpecMerge), <<>> elsewhere
  res                 \* its result, NoResult before the call and elsewhere

vars == << rooms, roomClients, clients, documents, clientConnections,
           subscriptions, channels, bus, pending, sent, last, nframes,
           everDeleted, faults, invalidSeen, threwSeen, subscribeCalls, arg, res,
           legs, redisCall, drops, callbacks, listeners, issued, commands,
           lastCall, ncalls, proc >>

\* The variables of the instances and of the bus, and those of the function
\* specifications.
system == << rooms, roomClients, clients, documents, clientConnections,
             subscriptions, channels, bus, pending, sent, last, nframes,
             everDeleted, faults, invalidSeen, threwSeen, subscribeCalls >>
\* The variables of the RedisService specifications.
lifecycle == << legs, redisCall, drops >>
pubsub == << callbacks, listeners, issued, commands, lastCall, ncalls >>
service == << lifecycle, pubsub, proc >>
call == << arg, res, service >>
NoResult == [called |-> FALSE]

Step(op, i, c, f, roomId, created, ok) ==
  [op |-> op, i |-> i, c |-> c, f |-> f, roomId |-> roomId,
   created |-> created, ok |-> ok]

InitSystem ==
  /\ rooms = [i \in Instances |-> [r \in Rooms |-> NoRoom]]
  /\ roomClients = [i \in Instances |-> [r \in Rooms |-> NoMembers]]
  /\ clients = [i \in Instances |-> [c \in Clients |-> NoClient]]
  /\ documents = [i \in Instances |-> [r \in Rooms |-> NoDoc]]
  /\ clientConnections = [i \in Instances |-> [c \in Clients |-> "none"]]
  /\ subscriptions = [i \in Instances |-> {}]
  /\ channels = [i \in Instances |-> {}]
  /\ bus = [i \in Instances |-> <<>>]
  /\ pending = [i \in Instances |-> [subscribe |-> <<>>, publish |-> <<>>]]
  /\ sent = [c \in Clients |-> <<>>]
  /\ last = Step("init", "", "", "", <<>>, FALSE, FALSE)
  /\ nframes = 0
  /\ everDeleted = [i \in Instances |-> {}]
  /\ faults = FALSE
  /\ invalidSeen = {}
  /\ threwSeen = {}
  /\ subscribeCalls = [i \in Instances |-> [r \in Rooms |-> 0]]

\* A RedisService just constructed: createClient does not connect.
NoDelay == 0 - 1
IdleLeg == [state |-> "idle", retries |-> 0, delay |-> NoDelay]
NoCallback == ""
NoExit == 0 - 1
NoCall == [op |-> "none", at |-> "", outcome |-> "returned"]
InitService ==
  /\ legs = [l \in {"client", "pubClient"} |-> IdleLeg]
  /\ redisCall = NoCall
  /\ drops = 0
  /\ callbacks = [ch \in Rooms |-> NoCallback]
  /\ listeners = [ch \in Rooms |-> <<>>]
  /\ issued = [ch \in Rooms |-> 0]
  /\ commands = <<>>
  /\ lastCall = [op |-> "none", channel |-> <<>>, callback |-> NoCallback]
  /\ ncalls = 0
  /\ proc = [phase |-> "starting", exitCode |-> NoExit, sigint |-> FALSE,
             wss |-> "open", server |-> "idle", metricsServer |-> "idle",
             connections |-> 0, metricsConnections |-> 0, timer |-> "off"]

Init == InitSystem /\ InitService /\ arg = <<>> /\ res = NoResult

\* The state of instance i as a handler finds it.
St(i) ==
  [rooms |-> rooms[i], roomClients |-> roomClients[i], clients |-> clients[i],
   documents |-> documents[i], clientConnections |-> clientConnections[i],
   subscriptions |-> subscriptions[i], out |-> [c \in Clients |-> <<>>]]

\* The state of instance i as a handler leaves it.
Commit(i, st) ==
  /\ rooms' = [rooms EXCEPT ![i] = st.rooms]
  /\ roomClients' = [roomClients EXCEPT ![i] = st.roomClients]
  /\ clients' = [clients EXCEPT ![i] = st.clients]
  /\ documents' = [documents EXCEPT ![i] = st.documents]
  /\ clientConnections' = [clientConnections EXCEPT ![i] = st.clientConnections]
  /\ subscriptions' = [subscriptions EXCEPT ![i] = st.subscriptions]
  /\ sent' = st.out
  /\ everDeleted' = [everDeleted EXCEPT ![i] =
       @ \cup {r \in Rooms : rooms[i][r].exists /\ ~st.rooms[r].exists}]

\* redis.publish reaching the server: every instance whose subscriber client
\* is subscribed to the channel gets the message.
Published(m) ==
  [j \in Instances |-> IF m.roomId \in channels[j] THEN Append(bus[j], m)
                       ELSE bus[j]]

\* A new connection (handleConnection).
Connect(c) ==
  LET i == InstanceOf(c) IN
  /\ clientConnections[i][c] = "none"
  /\ Commit(i, handleConnection(St(i), c))
  /\ last' = Step("connect", i, c, "", <<>>, FALSE, TRUE)
  /\ UNCHANGED << channels, bus, pending, nframes, faults, invalidSeen, threwSeen,
                  subscribeCalls, call >>

\* A frame arrives on an open connection (handleMessage, to its first await).
\* A publish it starts reaches the server (ok) or fails.
ClientFrame(c, f, max) ==
  LET i == InstanceOf(c)
      r == handleMessage(St(i), c, FrameData(f))
      m == decodeData(FrameData(f))
  IN /\ nframes < max
     /\ clientConnections[i][c] = "open"
     /\ \E ok \in BOOLEAN :
          /\ r.susp.kind # "publish" => ok
          /\ bus' = IF r.susp.kind = "publish" /\ ok
                    THEN Published(SyncMsg(r.susp.roomId, c, r.susp.update, i))
                    ELSE bus
          /\ last' = Step("message", i, c, f,
                          IF m.ok THEN m.value.roomId ELSE <<>>,
                          \E rm \in Rooms : ~rooms[i][rm].exists
                                            /\ r.st.rooms[rm].exists,
                          ok)
          /\ faults' = (faults \/ ~ok)
          /\ pending' = IF r.susp.kind = "none" THEN pending
                        ELSE [pending EXCEPT ![i][r.susp.kind] =
                                Append(@, [r.susp EXCEPT !.ok = ok])]
     /\ Commit(i, r.st)
     /\ nframes' = nframes + 1
     /\ invalidSeen' = IF m.ok THEN invalidSeen ELSE invalidSeen \cup {c}
     /\ threwSeen' = IF /\ m.ok
                        /\ m.value.type = DOCUMENT_UPDATE
                        /\ m.value.roomId # <<>>
                        /\ m.value.payload.present
                        /\ applyDecoded(St(i), m.value.roomId,
                                        fromBase64(m.value.payload.update)).threw
                     THEN threwSeen \cup {c} ELSE threwSeen
     /\ subscribeCalls' = IF r.susp.kind = "subscribe"
                          THEN [subscribeCalls EXCEPT ![i][r.susp.roomId] = @ + 1]
                          ELSE subscribeCalls
     /\ UNCHANGED << channels, call >>

\* The socket of a connection stops being open; its close event comes later.
SocketClosing(c) ==
  LET i == InstanceOf(c) IN
  /\ clientConnections[i][c] = "open"
  /\ clientConnections' = [clientConnections EXCEPT ![i][c] = "closing"]
  /\ sent' = [d \in Clients |-> <<>>]
  /\ last' = Step("closing", i, c, "", <<>>, FALSE, TRUE)
  /\ UNCHANGED << rooms, roomClients, clients, documents, subscriptions,
                  channels, bus, pending, nframes, everDeleted, faults,
                  invalidSeen, threwSeen,
                  subscribeCalls, call >>

\* The close event of a connection (handleDisconnect).
Disconnect(c) ==
  LET i == InstanceOf(c) IN
  /\ clientConnections[i][c] \in {"open", "closing"}
  /\ Commit(i, handleDisconnect(St(i), c))
  /\ last' = Step("disconnect", i, c, "", clients[i][c].roomId, FALSE, TRUE)
  /\ UNCHANGED << channels, bus, pending, nframes, faults, invalidSeen, threwSeen,
                  subscribeCalls, call >>

\* redis.subscribe returns (ok: Redis now delivers the channel) or throws.
SubscribeDone(i) ==
  /\ pending[i].subscribe # <<>>
  /\ LET susp == Head(pending[i].subscribe) IN
     \E ok \in BOOLEAN :
       /\ Commit(i, handleJoinRoomResume(St(i), susp, ok))
       /\ channels' = IF ok THEN [channels EXCEPT ![i] = @ \cup {susp.roomId}]
                      ELSE channels
       /\ last' = Step("subscribed", i, susp.clientId, "", susp.roomId, FALSE, ok)
       /\ faults' = (faults \/ ~ok)
  /\ pending' = [pending EXCEPT ![i].subscribe = Tail(@)]
  /\ UNCHANGED << bus, nframes, invalidSeen, threwSeen,
                  subscribeCalls, call >>

\* redis.publish returns or throws: handleDocumentUpdate goes on.
PublishDone(i) ==
  /\ pending[i].publish # <<>>
  /\ LET susp == Head(pending[i].publish) IN
       /\ Commit(i, handleDocumentUpdateResume(St(i), susp))
       /\ last' = Step("published", i, susp.clientId, "", susp.roomId, FALSE,
                       susp.ok)
  /\ pending' = [pending EXCEPT ![i].publish = Tail(@)]
  /\ UNCHANGED << channels, bus, nframes, faults, invalidSeen, threwSeen,
                  subscribeCalls, call >>

\* Redis delivers a message to an instance (the callback of redis.subscribe,
\* handleRedisUpdate); what the handler publishes reaches the instances that
\* are subscribed to the room's channel.
Deliver(i) ==
  /\ bus[i] # <<>>
  /\ LET m == Head(bus[i])
         out == handleRedisUpdatePublishes(St(i), m.roomId, m, i)
     IN
       /\ Commit(i, handleRedisUpdate(St(i), m.roomId, m, i))
       /\ last' = Step("redis", i, m.clientId, "", m.roomId, FALSE,
                       m.instanceId # i)
       /\ bus' = [j \in Instances |->
                   (IF j = i THEN Tail(bus[j]) ELSE bus[j])
                     \o (IF m.roomId \in channels[j] THEN out ELSE <<>>)]
  /\ UNCHANGED << channels, pending, nframes, faults, invalidSeen, threwSeen,
                  subscribeCalls, call >>

(***************************************************************************)
(* Specifications.  Each one is the whole system with its own population   *)
(* of connections and its own set of frames.                               *)
(***************************************************************************)
\* Replication between two instances: one connection on each, one room.
SpecClients == {"a1", "b1"}
SpecFrames == {"join_r1", "leave_r1", "update_r1_U1", "binary_r1_U2"}

Next ==
  \/ \E c \in SpecClients : Connect(c)
  \/ \E c \in SpecClients, f \in SpecFrames : ClientFrame(c, f, MaxFrames)
  \/ \E c \in SpecClients : SocketClosing(c)
  \/ \E c \in SpecClients : Disconnect(c)
  \/ \E i \in Instances : SubscribeDone(i)
  \/ \E i \in Instances : PublishDone(i)
  \/ \E i \in Instances : Deliver(i)

Spec == Init /\ [][Next]_vars

\* The room registry of one instance: two local connections and two rooms,
\* and a connection on the other instance that only sends updates.
RoomClients == {"a1", "a2", "b1"}
RoomFrames(c) ==
  IF c = "b1" THEN {"update_r1_U1"}
  ELSE {"join_r1", "join_r2", "leave_r1", "update_r1_U1"}

NextRooms ==
  \/ \E c \in RoomClients : Connect(c)
  \/ \E c \in RoomClients : \E f \in RoomFrames(c) :
       ClientFrame(c, f, MaxRoomFrames)
  \/ \E c \in RoomClients : Disconnect(c)
  \/ \E i \in Instances : SubscribeDone(i)
  \/ \E i \in Instances : PublishDone(i)
  \/ \E i \in Instances : Deliver(i)

SpecRooms == Init /\ [][NextRooms]_vars

\* The gateway of one instance with two connections, and frames of every
\* kind, malformed ones included.
GatewayClients == {"a1", "a2"}
AllGatewayFrames ==
  {"join_r1", "join_noroom", "leave_r1", "sync_r1", "ping_r1", "update_r1_U1",
   "update_r1_P1", "update_r1_bad", "update_r1_empty", "binary_r2_U1",
   "notjson", "notjson_str", "binary_truncated", "binary_trailing",
   "binary_roomlen", "binary_kind2", "binary_short"}

\* The second connection only joins: it is the bystander of the first one's
\* frames.
GatewayFrames(c) == IF c = "a2" THEN {"join_r1"} ELSE AllGatewayFrames

NextGateway ==
  \/ \E c \in GatewayClients : Connect(c)
  \/ \E c \in GatewayClients : \E f \in GatewayFrames(c) :
       ClientFrame(c, f, MaxGatewayFrames)
  \/ \E c \in GatewayClients : SocketClosing(c)
  \/ \E c \in GatewayClients : Disconnect(c)
  \/ \E i \in Instances : SubscribeDone(i)
  \/ \E i \in Instances : PublishDone(i)
  \/ \E i \in Instances : Deliver(i)

SpecGateway == Init /\ [][NextGateway]_vars

\* Delivery between two instances under the scheduling of the event loop: a
\* handler whose await has settled is resumed, and a message Redis holds for
\* an instance is handed to its callback.  a1 joins and sends updates; b1
\* joins and leaves.
DeliveryClients == {"a1", "b1"}
DeliveryFrames(c) == IF c = "a1" THEN {"join_r1", "update_r1_U1"}
                     ELSE {"join_r1", "leave_r1"}

NextDelivery ==
  \/ \E c \in DeliveryClients : Connect(c)
  \/ \E c \in DeliveryClients : \E f \in DeliveryFrames(c) :
       ClientFrame(c, f, MaxDeliveryFrames)
  \/ \E c \in DeliveryClients : SocketClosing(c)
  \/ \E c \in DeliveryClients : Disconnect(c)
  \/ \E i \in Instances : SubscribeDone(i)
  \/ \E i \in Instances : PublishDone(i)
  \/ \E i \in Instances : Deliver(i)

\* The steps the event loop owes: taking the head message off an instance's
\* bus queue is Deliver, taking the head off a queue of suspended handlers is
\* SubscribeDone or PublishDone.
Delivered(i) == bus[i] # <<>> /\ bus' = [bus EXCEPT ![i] = Tail(@)]
Resumed(i, kind) ==
  pending[i][kind] # <<>> /\ pending' = [pending EXCEPT ![i][kind] = Tail(@)]

SpecDelivery ==
  /\ Init /\ [][NextDelivery]_vars
  /\ \A i \in Instances : WF_bus(Delivered(i))
  /\ \A i \in Instances : WF_pending(Resumed(i, "subscribe"))
  /\ \A i \in Instances : WF_pending(Resumed(i, "publish"))

(***************************************************************************)
(* Properties.                                                             *)
(***************************************************************************)
\* No handler is suspended and every published message has been delivered.
Quiescent ==
  \A i \in Instances : /\ bus[i] = <<>>
                       /\ pending[i].subscribe = <<>>
                       /\ pending[i].publish = <<>>

\* Instance i has a registered client in room r.
HasLocalMember(i, r) ==
  \E c \in Clients : /\ clients[i][c].exists
                     /\ clients[i][c].roomId = r
                     /\ c \in roomClients[i][r].members

\* Client m is a member of room r on instance i and its socket is open.
OpenMember(i, m, r) ==
  /\ m \in roomClients[i][r].members
  /\ clients[i][m].exists
  /\ clientConnections[i][m] = "open"

\* The encoding of the empty document, as DOCUMENT_STATE carries it.
EmptyState == toBase64(encodeStateAsUpdate(EmptyDoc))

\* The last step handled a JOIN_ROOM frame that names a room.
JoinStep ==
  /\ last.op = "message"
  /\ last.f \in {"join_r1", "join_r2"}

\* C1: in every quiescent state reached without a failed publish or
\* subscribe, all instances that have a local member in room r hold the same
\* document for r.
C1_Convergence ==
  (Quiescent /\ ~faults) =>
    \A r \in Rooms : \A i, j \in Instances :
      (HasLocalMember(i, r) /\ HasLocalMember(j, r))
        => documents[i][r].doc = documents[j][r].doc

\* C2: on every instance a Room record for r exists if and only if a
\* Document for r exists.
C2_RoomIffDocument ==
  \A i \in Instances : \A r \in Rooms :
    rooms[i][r].exists <=> documents[i][r].exists

\* C3: when a JOIN_ROOM creates the record of a room the instance has
\* deleted before, the DOCUMENT_STATE the joining client receives is the
\* encoding of the empty document.
C3_FreshRoom ==
  (JoinStep /\ last.created /\ last.roomId \in everDeleted[last.i]) =>
    \A k \in 1..Len(sent[last.c]) :
      sent[last.c][k].type = DOCUMENT_STATE
        => sent[last.c][k].update = EmptyState

\* The last step handed instance i a bus message of its own (self echo).
SelfEchoStep(i) ==
  /\ bus[i] # <<>>
  /\ Head(bus[i]).instanceId = i
  /\ bus'[i] = Tail(bus[i])
  /\ last'.op = "redis"
  /\ last'.i = i

\* C4: a bus delivery whose instanceId is the receiving instance's own id
\* changes no document, no room record (so no update counter) and sends no
\* message to any client.
C4_SelfEcho ==
  [][\A i \in Instances :
       SelfEchoStep(i) =>
         /\ UNCHANGED << documents, rooms, roomClients, clients >>
         /\ \A c \in Clients : sent'[c] = <<>>]_vars

\* A self echo has been delivered to an instance that holds the room's
\* document and has a member in the room.
C4_Witness ==
  /\ last.op = "redis"
  /\ ~last.ok
  /\ documents[last.i][last.roomId].exists
  /\ HasLocalMember(last.i, last.roomId)

\* The frames of SpecDelivery that carry an update, and the update each
\* carries.
UpdateFrames == {"update_r1_U1"}
UpdateOf(f) == toBase64(U1)

\* Client a has just sent the update of frame f for R1 while the instance of
\* client c is subscribed to R1 and c is an open member of R1 there.
SentWhileMember(a, f, c) ==
  /\ last.op = "message"
  /\ last.c = a
  /\ last.f = f
  /\ R1 \in channels[InstanceOf(c)]
  /\ OpenMember(InstanceOf(c), c, R1)

\* Client c has just received, from the bus, the update of frame f sent by a.
ReceivedFromBus(a, f, c) ==
  /\ last.op = "redis"
  /\ last.i = InstanceOf(c)
  /\ sent[c] = << UpdateMsg(R1, a, UpdateOf(f)) >>

\* A bus delivery of another instance's message sends one DOCUMENT_UPDATE
\* with the message's update to each member of the room whose socket is open,
\* and nothing to anyone else.
OncePerDelivery ==
  [][\A i \in Instances :
       (/\ bus[i] # <<>>
        /\ Head(bus[i]).instanceId # i
        /\ bus'[i] = Tail(bus[i])
        /\ last'.op = "redis"
        /\ last'.i = i)
       => LET m == Head(bus[i]) IN
          \A c \in Clients :
            sent'[c] = IF OpenMember(i, c, m.roomId)
                       THEN << UpdateMsg(m.roomId, m.clientId, m.update) >>
                       ELSE <<>>]_vars

\* No client is sent a DOCUMENT_UPDATE that names itself as the sender.
NoOwnUpdate ==
  \A c \in Clients : \A k \in 1..Len(sent[c]) :
    sent[c][k].type = DOCUMENT_UPDATE => sent[c][k].clientId # c

C6_OneRoomPerClient ==
  \A i \in Instances : \A c \in Clients :
    Cardinality({r \in Rooms : c \in roomClients[i][r].members}) <= 1

\* C7: every Room record has a registered client whose roomId is that room.
C7_NoEmptyRoom ==
  \A i \in Instances : \A r \in Rooms :
    rooms[i][r].exists
      => \E c \in Clients : clients[i][c].exists /\ clients[i][c].roomId = r

\* C8: the DOCUMENT_STATE a JOIN_ROOM sends encodes the room's document, and
\* is the encoding of the empty document when the join creates the room.
C8_JoinState ==
  JoinStep =>
    \A k \in 1..Len(sent[last.c]) :
      sent[last.c][k].type = DOCUMENT_STATE
        => /\ sent[last.c][k].update =
                toBase64(encodeStateAsUpdate(
                           documents[last.i][last.roomId].doc))
           /\ last.created => sent[last.c][k].update = EmptyState

\* The frames that decode neither as a JSON envelope nor as a binary frame,
\* and those of them that are binary frames.
MalformedFrames ==
  {"notjson", "notjson_str", "binary_truncated", "binary_trailing",
   "binary_roomlen", "binary_kind2", "binary_short"}
BadBinaryFrames ==
  {"binary_truncated", "binary_trailing", "binary_roomlen", "binary_kind2",
   "binary_short"}

\* C9: a malformed frame is answered by exactly one ERROR "Invalid message
\* format" to its sender and by nothing to anyone else, and leaves the
\* connection open; a JOIN_ROOM the same connection sends later registers the
\* client and is answered by DOCUMENT_STATE and ACK.
C9_MalformedFrame ==
  /\ (last.op = "message" /\ last.f \in MalformedFrames) =>
       /\ sent[last.c] = << ErrorMsg("Invalid message format") >>
       /\ \A d \in Clients \ {last.c} : sent[d] = <<>>
       /\ clientConnections[last.i][last.c] = "open"
  /\ (JoinStep /\ last.c \in invalidSeen) =>
       /\ clients[last.i][last.c] = [exists |-> TRUE, roomId |-> last.roomId]
       /\ last.c \in roomClients[last.i][last.roomId].members
       /\ sent[last.c] =
            << StateMsg(last.roomId, last.c,
                        toBase64(encodeStateAsUpdate(
                                   documents[last.i][last.roomId].doc))),
               AckYouJoined(last.roomId, last.c) >>

\* A connection that sent a malformed frame has joined a room.
C9_Witness ==
  /\ JoinStep
  /\ last.c \in invalidSeen
  /\ clients[last.i][last.c].exists
  /\ Len(sent[last.c]) = 2

\* C10: a binary frame of inconsistent length or of a kind other than 1 is
\* answered by one ERROR and changes no document, room record, member set or
\* client record, starts no handler and publishes nothing.
C10_BadBinaryFrame ==
  [][(/\ last'.op = "message"
      /\ last'.f \in BadBinaryFrames
      /\ nframes' = nframes + 1)
     => /\ Len(sent'[last'.c]) = 1
        /\ sent'[last'.c][1].type = ERROR
        /\ UNCHANGED << documents, rooms, roomClients, clients, bus,
                        pending >>]_vars

\* A frame with bytes after its declared update has been rejected on an
\* instance that holds a document.
C10_Witness ==
  /\ last.op = "message"
  /\ last.f = "binary_trailing"
  /\ \E r \in Rooms : documents[last.i][r].exists
  /\ sent[last.c] # <<>>

(***************************************************************************)
(* decodeBinaryDocumentUpdate as a function of the frame's bytes.          *)
(***************************************************************************)
\* The inputs: every prefix of a frame built from a kind byte, a declared
\* room length, room bytes (ASCII, a two-byte character, bytes that are not
\* UTF-8), a declared update length, update bytes and trailing bytes.
DecodeRoomBytes == {<<>>, <<114>>, R1, <<195, 169>>, <<255>>, <<114, 195>>}
DecodeUpdates == {<<>>, <<7>>, U1}
DecodeInputs ==
  UNION {
    LET frame == BinaryFrame(k, Len(r) + dl, r, Len(u) + du, u,
                             [j \in 1..x |-> 0])
    IN {SubSeq(frame, 1, n) : n \in 0..Len(frame)} :
    k \in {0, 1, 2}, r \in DecodeRoomBytes, dl \in {0, 1, 256},
    u \in DecodeUpdates, du \in {0, 1, 256}, x \in 0..MaxTrailing}

InitDecode ==
  InitSystem /\ InitService /\ arg \in DecodeInputs /\ res = NoResult

DecodeCall ==
  /\ ~res.called
  /\ res' = [called |-> TRUE, value |-> decodeBinaryDocumentUpdate(arg)]
  /\ UNCHANGED << system, arg, service >>

SpecDecode == InitDecode /\ [][DecodeCall]_vars

\* The frame layout, read off the bytes b (1-based): kind byte 1, and a
\* length of exactly 1 + 2 + L + 8 + 4 + U.
DeclaredL(b) == b[2] + 256 * b[3]
DeclaredU(b) ==
  LET o == 11 + DeclaredL(b)
  IN b[o + 1] + 256 * b[o + 2] + 65536 * b[o + 3] + 16777216 * b[o + 4]
ExactLayout(b) ==
  /\ Len(b) >= 3
  /\ b[1] = 1
  /\ Len(b) >= 15 + DeclaredL(b)
  /\ Len(b) = 15 + DeclaredL(b) + DeclaredU(b)
RoomBytes(b) == SubSeq(b, 4, 3 + DeclaredL(b))
UpdateBytes(b) == SubSeq(b, Len(b) - DeclaredU(b) + 1, Len(b))

\* The UTF-8 encoding of a string of code points.
RECURSIVE utf8Encode(_)
utf8Encode(str) ==
  IF str = <<>> THEN <<>>
  ELSE
    LET c == Head(str)
        bytes == IF c < 128 THEN <<c>>
                 ELSE IF c < 2048 THEN <<192 + (c \div 64), 128 + (c % 64)>>
                 ELSE IF c < 65536
                   THEN <<224 + (c \div 4096), 128 + ((c \div 64) % 64),
                          128 + (c % 64)>>
                 ELSE <<240 + (c \div 262144), 128 + ((c \div 4096) % 64),
                        128 + ((c \div 64) % 64), 128 + (c % 64)>>
    IN bytes \o utf8Encode(Tail(str))

\* A message is returned exactly for the frames of the exact layout, with
\* type DOCUMENT_UPDATE and the last U bytes as its update.
DecodesExactLayout ==
  res.called =>
    /\ res.value.ok <=> ExactLayout(arg)
    /\ res.value.ok =>
         /\ res.value.value.type = DOCUMENT_UPDATE
         /\ res.value.value.payload.present
         /\ fromBase64(res.value.value.payload.update) = UpdateBytes(arg)

\* C11 as stated: the decoder returns a message exactly for the frames of
\* the exact layout, and the message's roomId is the L room bytes.
C11_DecodeExact ==
  /\ DecodesExactLayout
  /\ (res.called /\ res.value.ok)
       => utf8Encode(res.value.value.roomId) = RoomBytes(arg)

\* C11, amended: the roomId is the UTF-8 decoding of the L room bytes: it is
\* those bytes when they are ASCII, and it encodes back to them unless they
\* are not well-formed UTF-8, when it holds U+FFFD in their place.
C11_DecodeExactUtf8 ==
  /\ DecodesExactLayout
  /\ (res.called /\ res.value.ok) =>
       LET roomId == res.value.value.roomId IN
       /\ (\A j \in 1..Len(RoomBytes(arg)) : RoomBytes(arg)[j] < 128)
            => roomId = RoomBytes(arg)
       /\ \/ utf8Encode(roomId) = RoomBytes(arg)
          \/ \E j \in 1..Len(roomId) : roomId[j] = ReplacementChar

\* A frame with a two-byte character in its room id has been decoded.
C11_Witness ==
  /\ res.called
  /\ res.value.ok
  /\ RoomBytes(arg) = <<195, 169>>
  /\ res.value.value.roomId = <<233>>
  /\ UpdateBytes(arg) = U1

\* The frames that carry a DOCUMENT_UPDATE or a LEAVE_ROOM for a room.
UpdateOrLeaveFrames ==
  {"leave_r1", "leave_r2", "update_r1_U1", "update_r1_P1", "binary_r1_U2",
   "binary_r2_U1"}

\* C12: a DOCUMENT_UPDATE or LEAVE_ROOM from a connection that is in no room
\* changes no document, room record or member set, publishes nothing, starts
\* no publish and sends no message to any client.
C12_NoEffectBeforeJoin ==
  [][\A c \in Clients :
       (/\ ~clients[InstanceOf(c)][c].exists
        /\ \A r \in Rooms : c \notin roomClients[InstanceOf(c)][r].members
        /\ nframes' = nframes + 1
        /\ last'.op = "message"
        /\ last'.c = c
        /\ last'.f \in UpdateOrLeaveFrames)
       => /\ UNCHANGED << documents, rooms, roomClients, bus, pending >>
          /\ \A d \in Clients : sent'[d] = <<>>]_vars

\* C13: a client id whose close event has been handled is in no client
\* record, in no room's member set and not in the connection map.
C13_GoneAfterClose ==
  \A i \in Instances : \A c \in Clients :
    clientConnections[i][c] = "gone"
      => /\ ~clients[i][c].exists
         /\ \A r \in Rooms : c \notin roomClients[i][r].members

(***************************************************************************)
(* CrdtService.applyUpdate on one document, for sequences of merge updates *)
(***************************************************************************)
\* Merge updates: two single operations, both of them in one update, and two
\* operations that write the same field.
U12 == <<2, 1, 2, 0>>
F1 == <<1, 3, 1, 1, 1>>
F2 == <<1, 4, 1, 1, 2>>
MergeUpdates == <<U1, U2, U12, F1, F2>>

\* applyUpdate(R1, u) on the document store of i1; arg is the sequence of the
\* updates applied so far.
MergeApply(u) ==
  /\ Len(arg) < MaxMergeLen
  /\ arg' = Append(arg, u)
  /\ documents' =
       [documents EXCEPT !["i1"] = applyUpdate(St("i1"), R1, u).st.documents]
  /\ UNCHANGED << rooms, roomClients, clients, clientConnections,
                  subscriptions, channels, bus, pending, sent, last, nframes,
                  everDeleted, faults, invalidSeen, threwSeen, subscribeCalls, res,
                  service >>

NextMerge == \E j \in 1..Len(MergeUpdates) : MergeApply(MergeUpdates[j])

SpecMerge == Init /\ [][NextMerge]_vars

\* The updates of a set, each once, in the order of MergeUpdates.
RECURSIVE InOrder(_, _)
InOrder(S, j) ==
  IF j > Len(MergeUpdates) THEN <<>>
  ELSE (IF MergeUpdates[j] \in S THEN <<MergeUpdates[j]>> ELSE <<>>)
       \o InOrder(S, j + 1)

\* The document store after applying a sequence of updates to st.
RECURSIVE ApplyAll(_, _)
ApplyAll(st, seq) ==
  IF seq = <<>> THEN st
  ELSE ApplyAll(applyUpdate(st, R1, Head(seq)).st, Tail(seq))

AppliedUpdateFrames ==
  {"update_r1_U1", "update_r1_P1", "binary_r1_U2", "binary_r2_U1"}
FrameRoom(f) == IF f = "binary_r2_U1" THEN R2 ELSE R1
FrameB64(f) ==
  CASE f = "update_r1_U1" -> toBase64(U1)
    [] f = "update_r1_P1" -> toBase64(P1)
    [] f = "binary_r1_U2" -> toBase64(U2)
    [] f = "binary_r2_U1" -> toBase64(U1)
DocHolds(d, f) ==
  /\ d.exists
  /\ CASE f = "update_r1_U1" -> 1 \in d.doc.ops
       [] f = "update_r1_P1" -> d.doc.fields[1] = 1
       [] f = "binary_r1_U2" -> 2 \in d.doc.ops
       [] f = "binary_r2_U1" -> 1 \in d.doc.ops

\* The step handles frame f of client c.
FrameStep(c, f) ==
  /\ nframes' = nframes + 1
  /\ last'.op = "message"
  /\ last'.c = c
  /\ last'.f = f

\* The step resumes the handler at the head of instance i's suspended
\* DOCUMENT_UPDATE handlers.
PublishDoneStep(i) ==
  /\ pending[i].publish # <<>>
  /\ pending'[i].publish = Tail(pending[i].publish)
  /\ last'.op = "published"
  /\ last'.i = i

\* The resumed handler sends one DOCUMENT_UPDATE with its update to every
\* member of the room with an open socket but the sender, and nothing else.
BroadcastToOthers(i) ==
  LET h == Head(pending[i].publish) IN
  \A d \in Clients :
    sent'[d] = IF d # h.clientId /\ OpenMember(i, d, h.roomId)
               THEN << UpdateMsg(h.roomId, h.clientId, h.update) >>
               ELSE <<>>

\* C16: an applied DOCUMENT_UPDATE makes one publish call with the update's
\* base64 text, which, when it succeeds, puts one sync message tagged with the
\* instance's id on the room's channel; when the handler resumes, every other
\* local member with an open socket gets one DOCUMENT_UPDATE with the same
\* text; no client gets a DOCUMENT_UPDATE for its own update.
C16_PublishAndBroadcast ==
  /\ [][\A c \in Clients : \A f \in AppliedUpdateFrames :
          FrameStep(c, f) =>
            LET i == InstanceOf(c)
                r == FrameRoom(f)
            IN /\ pending'[i].publish =
                    Append(pending[i].publish,
                           [kind |-> "publish", clientId |-> c, roomId |-> r,
                            update |-> FrameB64(f), ok |-> last'.ok])
               /\ \A j \in Instances :
                    bus'[j] = IF last'.ok /\ r \in channels[j]
                              THEN Append(bus[j],
                                          SyncMsg(r, c, FrameB64(f), i))
                              ELSE bus[j]
               /\ \A d \in Clients : sent'[d] = <<>>]_vars
  /\ [][\A i \in Instances : PublishDoneStep(i) => BroadcastToOthers(i)]_vars
  /\ []NoOwnUpdate

\* The other member of the room has received the update of a member.
C16_Witness ==
  /\ last.op = "published"
  /\ clients[last.i][last.c].exists
  /\ \E d \in Clients \ {last.c} :
       sent[d] = << UpdateMsg(R1, last.c, toBase64(U1)) >>

\* C17: when the publish of an applied update fails, the document holds the
\* update, the room's update counter is incremented and nothing reaches the
\* bus; when the handler resumes, document and counter are as they were and
\* the update is broadcast to the other local members.
C17_PublishFailure ==
  /\ [][\A c \in Clients : \A f \in AppliedUpdateFrames :
          (FrameStep(c, f) /\ ~last'.ok) =>
            LET i == InstanceOf(c)
                r == FrameRoom(f)
            IN /\ DocHolds(documents'[i][r], f)
               /\ rooms[i][r].exists
                    => /\ rooms'[i][r].exists
                       /\ rooms'[i][r].updatesCount =
                            rooms[i][r].updatesCount + 1
               /\ bus' = bus]_vars
  /\ [][\A i \in Instances :
          (PublishDoneStep(i) /\ ~Head(pending[i].publish).ok) =>
            /\ UNCHANGED << documents, rooms >>
            /\ BroadcastToOthers(i)]_vars

\* A handler whose publish failed has broadcast its update to another member.
C17_Witness ==
  /\ last.op = "published"
  /\ ~last.ok
  /\ rooms[last.i][last.roomId].updatesCount > 0
  /\ \E d \in Clients \ {last.c} : sent[d] # <<>>

(***************************************************************************)
(* Field patches: a1 joins r1 and patches its document, with one field and *)
(* with two; a2 on the same instance and b1 on the other one join r1.      *)
(***************************************************************************)
PatchClients == {"a1", "a2", "b1"}
PatchFrames(c) == IF c = "a1" THEN {"join_r1", "update_r1_P1", "update_r1_P2"}
                  ELSE {"join_r1"}

NextPatch ==
  \/ \E c \in PatchClients : Connect(c)
  \/ \E c \in PatchClients : \E f \in PatchFrames(c) :
       ClientFrame(c, f, MaxPatchFrames)
  \/ \E c \in PatchClients : Disconnect(c)
  \/ \E i \in Instances : SubscribeDone(i)
  \/ \E i \in Instances : PublishDone(i)
  \/ \E i \in Instances : Deliver(i)

SpecPatch == Init /\ [][NextPatch]_vars

\* The fields of a document bear the two-field patch whole or not at all:
\* title = 2 and author = 2 are only written together, and author is written
\* by nothing else.
PatchWhole(fields) ==
  /\ fields[1] = 2 => fields[2] = 2
  /\ fields[2] # 0 => fields[2] = 2 /\ fields[1] # 0

\* C15: between handler steps no document of any instance, and no
\* DOCUMENT_STATE sent to a joining client, bears only some of the fields of
\* a patch.
C15_PatchAtomic ==
  /\ \A i \in Instances : \A r \in Rooms :
       documents[i][r].exists => PatchWhole(documents[i][r].doc.fields)
  /\ \A c \in Clients : \A k \in 1..Len(sent[c]) :
       sent[c][k].type = DOCUMENT_STATE
         => LET d == YDecode(fromBase64(sent[c][k].update))
            IN d.ok /\ PatchWhole(d.fields)

\* A client has joined a room whose document bears the two-field patch, on the
\* instance that received the patch from the bus.
C15_Witness ==
  /\ JoinStep
  /\ last.i = "i2"
  /\ documents["i2"][R1].doc.fields = [k \in Keys |-> 2]
  /\ Len(sent[last.c]) = 2
  /\ YDecode(fromBase64(sent[last.c][1].update)).fields = [k \in Keys |-> 2]

\* The frames of Spec whose handling changes a document, a room or the bus.
EffectFrames == {"join_r1", "leave_r1", "update_r1_U1", "binary_r1_U2"}

\* C18: no frame of a connection is handled while the handler of an earlier
\* DOCUMENT_UPDATE of the same connection is still suspended on its publish,
\* with its local broadcast not yet made.
C18_InOrder ==
  [][\A c \in Clients : \A f \in EffectFrames :
       FrameStep(c, f) =>
         \A k \in 1..Len(pending[InstanceOf(c)].publish) :
           pending[InstanceOf(c)].publish[k].clientId # c]_vars

\* C19: the transport's subscribe is called at most once for a room's channel
\* on each instance, so at most one callback is registered for it.
C19_SubscribeOnce ==
  \A i \in Instances : \A r \in Rooms : subscribeCalls[i][r] <= 1

\* A second JOIN_ROOM for a room has been handled while the subscribe call of
\* the first is still pending.
C19_Witness ==
  /\ JoinStep
  /\ \E k \in 1..Len(pending[last.i].subscribe) :
       /\ pending[last.i].subscribe[k].roomId = last.roomId
       /\ pending[last.i].subscribe[k].clientId # last.c
  /\ subscribeCalls[last.i][last.roomId] = 1

\* The step resumes the JOIN_ROOM handler at the head of instance i's
\* suspended joins with a failed subscribe.
SubscribeFailedStep(i) ==
  /\ pending[i].subscribe # <<>>
  /\ pending'[i].subscribe = Tail(pending[i].subscribe)
  /\ last'.op = "subscribed"
  /\ last'.i = i
  /\ ~last'.ok

\* C20: when the subscribe of a JOIN_ROOM fails, the joining client, if its
\* socket is open, is sent one ERROR, the state of no connection changes, and
\* the join that started the subscribe had sent DOCUMENT_STATE and ACK.
C20_SubscribeFailure ==
  /\ [][\A i \in Instances :
          SubscribeFailedStep(i) =>
            LET c == Head(pending[i].subscribe).clientId IN
            /\ UNCHANGED clientConnections
            /\ clientConnections[i][c] = "open"
                 => sent'[c] =
                      << ErrorMsg("Failed to subscribe to room updates") >>
            /\ \A d \in Clients \ {c} : sent'[d] = <<>>]_vars
  /\ [][\A c \in Clients : \A f \in {"join_r1", "join_r2"} :
          (/\ FrameStep(c, f)
           /\ Len(pending'[InstanceOf(c)].subscribe)
                > Len(pending[InstanceOf(c)].subscribe))
          => /\ Len(sent'[c]) = 2
             /\ sent'[c][1].type = DOCUMENT_STATE
             /\ sent'[c][2].type = ACK]_vars

\* A joining client with an open socket has been told that the subscribe
\* failed.
C20_Witness ==
  /\ last.op = "subscribed"
  /\ ~last.ok
  /\ clientConnections[last.i][last.c] = "open"
  /\ sent[last.c] = << ErrorMsg("Failed to subscribe to room updates") >>

(***************************************************************************)
(* LEAVE_ROOM.                                                             *)
(***************************************************************************)
\* C21: a LEAVE_ROOM naming room R1 from a client that is not a member of R1
\* changes no membership and sends nothing to anyone; one from a member of R1
\* removes it from R1 and sends the 'left' ACK to exactly the remaining
\* members of R1 with an open socket.
C21_LeaveRequiresMembership ==
  [][\A c \in Clients :
       FrameStep(c, "leave_r1") =>
         LET i == InstanceOf(c) IN
         IF c \notin roomClients[i][R1].members
         THEN /\ UNCHANGED << roomClients, clients, rooms >>
              /\ \A d \in Clients : sent'[d] = <<>>
         ELSE /\ c \notin roomClients'[i][R1].members
              /\ \A d \in Clients :
                   sent'[d] =
                     IF /\ d # c
                        /\ d \in roomClients'[i][R1].members
                        /\ clientConnections[i][d] = "open"
                     THEN << AckLeft(R1, c) >>
                     ELSE <<>>]_vars

(***************************************************************************)
(* Subscriptions of an instance.                                           *)
(***************************************************************************)
\* C22: in every quiescent state Redis delivers the channel of room r to an
\* instance if and only if the instance has a local member in r.
C22_SubscriptionFollowsMembership ==
  Quiescent =>
    \A i \in Instances : \A r \in Rooms :
      r \in channels[i] <=> HasLocalMember(i, r)

(***************************************************************************)
(* Updates that are dropped.                                               *)
(***************************************************************************)
\* C23: a DOCUMENT_UPDATE whose base64 text decodes to no byte changes no
\* document, no room record (update counter, lastUpdateAt), publishes nothing,
\* starts no publish, sends nothing to anyone and leaves every connection as
\* it is.
C23_EmptyUpdateDropped ==
  [][\A c \in Clients :
       FrameStep(c, "update_r1_empty") =>
         /\ UNCHANGED << documents, rooms, roomClients, clients, bus, pending,
                         clientConnections >>
         /\ \A d \in Clients : sent'[d] = <<>>]_vars

\* A member of a room that holds an update and has another open member has
\* sent an empty update.
C23_Witness ==
  /\ last.op = "message"
  /\ last.f = "update_r1_empty"
  /\ documents[last.i][R1].exists
  /\ documents[last.i][R1].doc.ops # {}
  /\ rooms[last.i][R1].exists
  /\ \E d \in Clients \ {last.c} : OpenMember(last.i, d, R1)
  /\ clientConnections[last.i][last.c] = "open"

\* Updates that throw when they are applied: a1 joins, sends an update that
\* does not decode and a valid one; a2 joins and is the bystander.
DropClients == {"a1", "a2"}
DropFrames(c) ==
  IF c = "a1" THEN {"join_r1", "update_r1_bad", "update_r1_U1"}
  ELSE {"join_r1"}

NextDrop ==
  \/ \E c \in DropClients : Connect(c)
  \/ \E c \in DropClients : \E f \in DropFrames(c) :
       ClientFrame(c, f, MaxDropFrames)
  \/ \E c \in DropClients : Disconnect(c)
  \/ \E i \in Instances : SubscribeDone(i)
  \/ \E i \in Instances : PublishDone(i)
  \/ \E i \in Instances : Deliver(i)

SpecDrop == Init /\ [][NextDrop]_vars

\* C24: a DOCUMENT_UPDATE whose application throws changes no room record
\* (update counter), no member set, no client record, no connection and no
\* document content, publishes nothing, starts no publish and sends nothing;
\* a later valid update of the same connection is applied, counted, published
\* and, when its handler resumes, broadcast to the other local members.
C24_ThrowingUpdateDropped ==
  /\ [][\A c \in Clients :
          FrameStep(c, "update_r1_bad") =>
            /\ UNCHANGED << rooms, roomClients, clients, clientConnections,
                            bus, pending >>
            /\ \A i \in Instances : \A r \in Rooms :
                 documents'[i][r].doc = documents[i][r].doc
            /\ \A d \in Clients : sent'[d] = <<>>]_vars
  /\ [][\A c \in Clients :
          (c \in threwSeen /\ FrameStep(c, "update_r1_U1")) =>
            LET i == InstanceOf(c) IN
            /\ DocHolds(documents'[i][R1], "update_r1_U1")
            /\ rooms[i][R1].exists
                 => /\ rooms'[i][R1].exists
                    /\ rooms'[i][R1].updatesCount = rooms[i][R1].updatesCount + 1
            /\ Len(pending'[i].publish) = Len(pending[i].publish) + 1
            /\ pending'[i].publish[Len(pending'[i].publish)].clientId = c
            /\ last'.ok =>
                 \A j \in Instances :
                   R1 \in channels[j] =>
                     bus'[j] = Append(bus[j],
                                      SyncMsg(R1, c, toBase64(U1), i))]_vars
  /\ [][\A i \in Instances :
          (PublishDoneStep(i) /\ Head(pending[i].publish).clientId \in threwSeen)
            => BroadcastToOthers(i)]_vars

\* A member whose earlier update threw is still a member with an open socket,
\* and its valid update has been counted and broadcast to the other member.
C24_Witness ==
  /\ last.op = "published"
  /\ last.c \in threwSeen
  /\ clients[last.i][last.c].exists
  /\ clients[last.i][last.c].roomId = R1
  /\ clientConnections[last.i][last.c] = "open"
  /\ rooms[last.i][R1].updatesCount = 1
  /\ \E d \in Clients \ {last.c} :
       sent[d] = << UpdateMsg(R1, last.c, toBase64(U1)) >>

(***************************************************************************)
(* Containment.                                                            *)
(***************************************************************************)
\* The step handles a DOCUMENT_UPDATE frame, resumes its handler, or handles
\* a bus delivery; last'.roomId is the room it is for.
UpdateHandlingStep ==
  \/ /\ nframes' = nframes + 1
     /\ last'.op = "message"
     /\ last'.f \in AppliedUpdateFrames \cup {"update_r1_bad", "update_r1_empty"}
  \/ \E i \in Instances : PublishDoneStep(i)
  \/ \E i \in Instances : /\ bus[i] # <<>>
                          /\ bus'[i] = Tail(bus[i])
                          /\ last'.op = "redis"

\* C25: handling a DOCUMENT_UPDATE or a bus delivery for room r leaves the
\* document, the room record and the member set of every other room as they
\* are, and sends nothing to a client whose room is another room.
C25_PerRoomContainment ==
  [][UpdateHandlingStep =>
       \A i \in Instances : \A q \in Rooms \ {last'.roomId} :
         /\ documents'[i][q] = documents[i][q]
         /\ rooms'[i][q] = rooms[i][q]
         /\ roomClients'[i][q] = roomClients[i][q]
         /\ \A d \in Clients :
              (clients[i][d].exists /\ clients[i][d].roomId = q)
                => sent'[d] = <<>>]_vars

(***************************************************************************)
(* RedisService: its two clients, connect() and disconnect().              *)
(***************************************************************************)
\* The reconnect strategy both clients are created with: the delay before
\* the next attempt, or an error that ends the loop.
MaxRetries == 10
BaseDelay == 100
reconnectStrategy_flat(retries) ==
  IF retries > MaxRetries THEN [error |-> TRUE, delay |-> NoDelay]
  ELSE [error |-> FALSE, delay |-> BaseDelay]

reconnectStrategy(retries) ==
  IF retries > MaxRetries THEN [error |-> TRUE, delay |-> NoDelay]
  ELSE [error |-> FALSE, delay |-> BaseDelay * retries]

\* A client starts connecting: its reconnect loop starts with no retry made.
Connecting == [state |-> "connecting", retries |-> 0, delay |-> NoDelay]

\* An attempt of a client's socket to connect has succeeded (ok) or failed:
\* after a failure the strategy schedules the next attempt or ends the loop.
Attempted(leg, ok) ==
  IF ok THEN [state |-> "ready", retries |-> 0, delay |-> NoDelay]
  ELSE LET s == reconnectStrategy(leg.retries)
       IN IF s.error THEN [leg EXCEPT !.state = "failed", !.delay = NoDelay]
          ELSE [leg EXCEPT !.retries = @ + 1, !.delay = s.delay]

\* connect() up to its first await: client.connect() is called.
connect ==
  /\ redisCall = NoCall
  /\ legs' = [legs EXCEPT !["client"] = Connecting]
  /\ redisCall' = [op |-> "connect", at |-> "client", outcome |-> "pending"]
  /\ UNCHANGED drops

\* A caller calls connect().
RedisConnect == connect /\ UNCHANGED << system, arg, res, pubsub, proc >>

\* An attempt of client l's socket.  When connect() is awaiting the client
\* and the loop has ended, connect() goes on: after the subscriber client it
\* connects the publisher client, after the publisher client it returns, and
\* it throws when the loop ended with an error.
LegAttempt(l) ==
  /\ legs[l].state = "connecting"
  /\ \E ok \in BOOLEAN :
       LET leg == Attempted(legs[l], ok)
           awaited == /\ redisCall.op = "connect"
                      /\ redisCall.outcome = "pending"
                      /\ redisCall.at = l
                      /\ leg.state # "connecting"
       IN /\ legs' = IF awaited /\ l = "client" /\ leg.state = "ready"
                     THEN [legs EXCEPT ![l] = leg, !["pubClient"] = Connecting]
                     ELSE [legs EXCEPT ![l] = leg]
          /\ redisCall' =
               IF ~awaited THEN redisCall
               ELSE IF leg.state = "failed"
                 THEN [redisCall EXCEPT !.outcome = "threw"]
               ELSE IF l = "client"
                 THEN [redisCall EXCEPT !.at = "pubClient"]
               ELSE [redisCall EXCEPT !.outcome = "returned"]
  /\ UNCHANGED << system, arg, res, pubsub, proc, drops >>

\* Redis drops the connection of a client: its reconnect loop starts again.
LegDrop(l) ==
  /\ legs[l].state = "ready"
  /\ drops < MaxDrops
  /\ legs' = [legs EXCEPT ![l] = Connecting]
  /\ drops' = drops + 1
  /\ UNCHANGED << system, arg, res, pubsub, proc, redisCall >>

\* disconnect() up to its first await: client.quit() is called.
disconnect ==
  /\ redisCall.op = "connect"
  /\ redisCall.outcome # "pending"
  /\ redisCall' = [op |-> "disconnect", at |-> "client", outcome |-> "pending"]
  /\ UNCHANGED << legs, drops >>

\* A caller calls disconnect().
RedisDisconnect == disconnect /\ UNCHANGED << system, arg, res, pubsub, proc >>

\* The quit() that disconnect() is awaiting returns (ok) or throws.  After
\* the subscriber client's quit returns, the publisher client's is called;
\* after the publisher client's, disconnect() returns.  When a quit throws,
\* disconnect() throws; the client whose quit threw is closed or as it was.
QuitSettled ==
  /\ redisCall.op = "disconnect"
  /\ redisCall.outcome = "pending"
  /\ LET l == redisCall.at IN
     \E ok \in BOOLEAN : \E closed \in BOOLEAN :
       /\ ok => closed
       /\ legs' = IF closed
                  THEN [legs EXCEPT ![l] = [state |-> "closed", retries |-> 0,
                                            delay |-> NoDelay]]
                  ELSE legs
       /\ redisCall' =
            IF ~ok THEN [redisCall EXCEPT !.outcome = "threw"]
            ELSE IF l = "client" THEN [redisCall EXCEPT !.at = "pubClient"]
            ELSE [redisCall EXCEPT !.outcome = "returned"]
  /\ UNCHANGED << system, arg, res, pubsub, proc, drops >>

NextRedis ==
  \/ RedisConnect
  \/ \E l \in {"client", "pubClient"} : LegAttempt(l)
  \/ \E l \in {"client", "pubClient"} : LegDrop(l)
  \/ RedisDisconnect
  \/ QuitSettled

\* An attempt under way ends: the socket connects or the attempt fails.
SpecRedis ==
  /\ Init /\ [][NextRedis]_vars
  /\ \A l \in {"client", "pubClient"} : WF_vars(LegAttempt(l))

\* The socket of client l is connected or trying to connect.
Connected(l) == legs[l].state \in {"ready", "connecting"}

\* C26: after disconnect() has returned or thrown neither client is
\* connected, and after connect() has thrown neither client is connected.
C26_LegsReleased ==
  /\ (redisCall.op = "disconnect" /\ redisCall.outcome # "pending")
       => \A l \in {"client", "pubClient"} : ~Connected(l)
  /\ (redisCall.op = "connect" /\ redisCall.outcome = "threw")
       => \A l \in {"client", "pubClient"} : ~Connected(l)

\* The step is a failed attempt of client l's socket or its success.
AttemptStep(l) == legs[l].state = "connecting" /\ legs'[l] # legs[l]

\* C29: after a failed attempt with n retries made, n <= 10, the next attempt
\* is scheduled 100 * n milliseconds later; after a failed attempt with more
\* than 10 no attempt is scheduled and the loop ends with an error, from which
\* it never starts again; and a client that is connecting ends up connected,
\* failed or closed.
C29_BoundedReconnect ==
  /\ [][\A l \in {"client", "pubClient"} :
          (AttemptStep(l) /\ legs'[l].state \notin {"ready", "closed"}) =>
            IF legs[l].retries <= 10
            THEN /\ legs'[l].state = "connecting"
                 /\ legs'[l].delay = 100 * legs[l].retries
                 /\ legs'[l].retries = legs[l].retries + 1
            ELSE /\ legs'[l].state = "failed"
                 /\ legs'[l].delay = NoDelay]_vars
  /\ [][\A l \in {"client", "pubClient"} :
          legs[l].state = "failed" => legs'[l].state \in {"failed", "closed"}]_vars
  /\ \A l \in {"client", "pubClient"} :
       (legs[l].state = "connecting")
         ~> (legs[l].state \in {"ready", "failed", "closed"})

\* A reconnect loop has ended with an error after its tenth delay, of 1000
\* milliseconds, and connect() has thrown.
C29_Witness ==
  /\ legs["client"].state = "failed"
  /\ legs["client"].retries = 11
  /\ redisCall = [op |-> "connect", at |-> "client", outcome |-> "threw"]

(***************************************************************************)
(* RedisService: subscribe, unsubscribe and getStatus.  A channel is named *)
(* by its room.                                                            *)
(***************************************************************************)
Callbacks == {"cb1", "cb2"}

\* subscribe(channel, callback) up to its await: the callback is put into
\* the map and client.subscribe is called.
subscribe(channel, callback) ==
  /\ callbacks' = [callbacks EXCEPT ![channel] = callback]
  /\ issued' = [issued EXCEPT ![channel] = @ + 1]
  /\ commands' = Append(commands, [op |-> "subscribe", channel |-> channel,
                                   callback |-> callback])
  /\ UNCHANGED listeners

\* unsubscribe(channel) up to its await: client.unsubscribe is called.
unsubscribe(channel) ==
  /\ commands' = Append(commands, [op |-> "unsubscribe", channel |-> channel,
                                   callback |-> NoCallback])
  /\ UNCHANGED << callbacks, issued, listeners >>

\* getStatus().subscribedChannels
subscribedChannels == {ch \in Rooms : callbacks[ch] # NoCallback}

\* A caller calls subscribe.
Subscribe(channel, callback) ==
  /\ ncalls < MaxBusCalls
  /\ subscribe(channel, callback)
  /\ lastCall' = [op |-> "subscribe", channel |-> channel,
                  callback |-> callback]
  /\ ncalls' = ncalls + 1
  /\ UNCHANGED << system, arg, res, proc, lifecycle >>

\* A caller calls unsubscribe.
Unsubscribe(channel) ==
  /\ ncalls < MaxBusCalls
  /\ unsubscribe(channel)
  /\ lastCall' = [op |-> "unsubscribe", channel |-> channel,
                  callback |-> NoCallback]
  /\ ncalls' = ncalls + 1
  /\ UNCHANGED << system, arg, res, proc, lifecycle >>

\* The subscriber client answers its oldest command, and the call that awaits
\* it goes on.  A subscribe that succeeds adds its listener to the channel's
\* and returns; one that fails throws, and the map keeps the callback.  An
\* unsubscribe that succeeds removes the channel's listeners and deletes the
\* channel from the map; one that fails throws.
Answered ==
  /\ commands # <<>>
  /\ LET c == Head(commands) IN
     \E ok \in BOOLEAN :
       /\ listeners' =
            IF ~ok THEN listeners
            ELSE IF c.op = "subscribe"
              THEN [listeners EXCEPT ![c.channel] = Append(@, c.callback)]
            ELSE [listeners EXCEPT ![c.channel] = <<>>]
       /\ callbacks' =
            IF ok /\ c.op = "unsubscribe"
            THEN [callbacks EXCEPT ![c.channel] = NoCallback]
            ELSE callbacks
  /\ commands' = Tail(commands)
  /\ UNCHANGED << system, arg, res, proc, lifecycle, issued, lastCall, ncalls >>

NextBus ==
  \/ \E ch \in Rooms : \E cb \in Callbacks : Subscribe(ch, cb)
  \/ \E ch \in Rooms : Unsubscribe(ch)
  \/ Answered

SpecBus == Init /\ [][NextBus]_vars

\* The step is a call of subscribe for channel ch.
SubscribeStep(ch) ==
  /\ ncalls' = ncalls + 1
  /\ lastCall'.op = "subscribe"
  /\ lastCall'.channel = ch

\* C27: a call of subscribe for a channel that has a callback registered
\* leaves the registered callback as it is and issues no subscribe on the
\* transport.
C27_SubscribeIdempotent ==
  [][\A ch \in Rooms :
       (SubscribeStep(ch) /\ callbacks[ch] # NoCallback) =>
         /\ callbacks'[ch] = callbacks[ch]
         /\ issued'[ch] = issued[ch]
         /\ commands' = commands]_vars

\* C28: when no command is waiting for its answer, getStatus lists a channel
\* if and only if the subscriber client has a listener for it, that is, a
\* subscribe for it has succeeded and no unsubscribe has since.
C28_StatusListsSubscribed ==
  commands = <<>> =>
    \A ch \in Rooms : ch \in subscribedChannels <=> listeners[ch] # <<>>

(***************************************************************************)
(* The process of index.ts: start(), the servers, the SIGINT handler.      *)
(***************************************************************************)
\* start() has awaited redis.connect(): when it returned both servers
\* listen, when it threw the process exits with code 1.
Started ==
  /\ proc.phase = "starting"
  /\ redisCall.op = "connect"
  /\ redisCall.outcome # "pending"
  /\ proc' = IF redisCall.outcome = "returned"
             THEN [proc EXCEPT !.phase = "running", !.server = "listening",
                               !.metricsServer = "listening"]
             ELSE [proc EXCEPT !.phase = "exited", !.exitCode = 1]
  /\ UNCHANGED << system, arg, res, lifecycle, pubsub >>

\* A client connects to the main server, which upgrades it to a WebSocket.
Accepted ==
  /\ proc.server = "listening"
  /\ proc.connections < MaxConnections
  /\ proc' = [proc EXCEPT !.connections = @ + 1]
  /\ UNCHANGED << system, arg, res, lifecycle, pubsub >>

\* A connection of the main server ends.  The WebSocket server that is
\* closing is closed when its last client is gone.
Ended ==
  /\ proc.connections > 0
  /\ proc' = [proc EXCEPT !.connections = @ - 1,
                          !.wss = IF proc.wss = "closing" /\ proc.connections = 1
                                  THEN "closed" ELSE @]
  /\ UNCHANGED << system, arg, res, lifecycle, pubsub >>

\* A request reaches the metrics server and is being served.
MetricsRequested ==
  /\ proc.metricsServer = "listening"
  /\ proc.metricsConnections < MaxConnections
  /\ proc' = [proc EXCEPT !.metricsConnections = @ + 1]
  /\ UNCHANGED << system, arg, res, lifecycle, pubsub >>

\* A connection of the metrics server ends.  The metrics server that is
\* closing is closed when its last connection is gone.
MetricsEnded ==
  /\ proc.metricsConnections > 0
  /\ proc' = [proc EXCEPT !.metricsConnections = @ - 1,
                          !.metricsServer =
                            IF /\ proc.metricsServer = "closing"
                               /\ proc.metricsConnections = 1
                            THEN "closed" ELSE @]
  /\ UNCHANGED << system, arg, res, lifecycle, pubsub >>

\* The SIGINT handler: wss.close, metricsServer.close and server.close are
\* called and the timer is set.  A server stops listening at once, and one
\* without a connection is closed before the callback of server.close runs.
Sigint ==
  /\ proc.phase = "running"
  /\ ~proc.sigint
  /\ proc' = [proc EXCEPT
       !.sigint = TRUE,
       !.wss = IF proc.connections = 0 THEN "closed" ELSE "closing",
       !.metricsServer = IF proc.metricsConnections = 0 THEN "closed"
                         ELSE "closing",
       !.server = "closing",
       !.timer = "set"]
  /\ UNCHANGED << system, arg, res, lifecycle, pubsub >>

\* The main server has no connection left: it is closed and the callback of
\* server.close runs up to its await of redis.disconnect().
ServerClosed ==
  /\ proc.phase = "running"
  /\ proc.server = "closing"
  /\ proc.connections = 0
  /\ proc' = [proc EXCEPT !.server = "closed"]
  /\ disconnect
  /\ UNCHANGED << system, arg, res, pubsub >>

\* redis.disconnect() has returned or thrown: the callback logs and calls
\* process.exit(0).
Exit0 ==
  /\ proc.phase = "running"
  /\ redisCall.op = "disconnect"
  /\ redisCall.outcome # "pending"
  /\ proc' = [proc EXCEPT !.phase = "exited", !.exitCode = 0]
  /\ UNCHANGED << system, arg, res, lifecycle, pubsub >>

\* The timer of the SIGINT handler fires: process.exit(1).
TimedOut ==
  /\ proc.phase = "running"
  /\ proc.timer = "set"
  /\ proc' = [proc EXCEPT !.phase = "exited", !.exitCode = 1,
                          !.timer = "fired"]
  /\ UNCHANGED << system, arg, res, lifecycle, pubsub >>

\* The callback that redis.disconnect() resumes runs before any event is
\* taken; a process that has exited does nothing.
Eventful ==
  /\ proc.phase # "exited"
  /\ ~(/\ proc.phase = "running"
       /\ redisCall.op = "disconnect"
       /\ redisCall.outcome # "pending")

NextProcess ==
  \/ Exit0
  \/ Eventful /\ RedisConnect
  \/ \E l \in {"client", "pubClient"} : Eventful /\ LegAttempt(l)
  \/ \E l \in {"client", "pubClient"} : Eventful /\ LegDrop(l)
  \/ Eventful /\ Started
  \/ Eventful /\ Accepted
  \/ Eventful /\ Ended
  \/ Eventful /\ MetricsRequested
  \/ Eventful /\ MetricsEnded
  \/ Eventful /\ Sigint
  \/ Eventful /\ ServerClosed
  \/ Eventful /\ QuitSettled
  \/ Eventful /\ TimedOut

\* A timer that is set fires, and a callback that can run does.
SpecProcess ==
  /\ Init /\ [][NextProcess]_vars
  /\ WF_vars(Eventful /\ TimedOut)
  /\ WF_vars(Exit0)

\* C30: redis.disconnect() is called only once the main server is closed;
\* when the process exits with code 0 the WebSocket server, the metrics
\* server and the main server are closed and disconnect() has ended; when the
\* timer has fired the process has exited with code 1; and after SIGINT the
\* process exits.
C30_GracefulShutdown ==
  /\ [](redisCall.op = "disconnect" => proc.server = "closed")
  /\ []((proc.phase = "exited" /\ proc.exitCode = 0) =>
          /\ proc.wss = "closed"
          /\ proc.metricsServer = "closed"
          /\ proc.server = "closed"
          /\ redisCall.op = "disconnect"
          /\ redisCall.outcome # "pending")
  /\ [](proc.timer = "fired" => (proc.phase = "exited" /\ proc.exitCode = 1))
  /\ (proc.sigint ~> proc.phase = "exited")

(***************************************************************************)
(* Replies to JOIN_ROOM; frames of other kinds.                            *)
(***************************************************************************)
\* The room a join frame names.
JoinRoomOf(f) == IF f = "join_r2" THEN R2 ELSE R1

\* C31: a JOIN_ROOM for room r from client c sends c the DOCUMENT_STATE and
\* then the ACK that names c as joined, and nothing else; every other member
\* of r with an open socket is sent exactly the 'c joined' ACK.
C31_JoinReplyOrder ==
  [][\A c \in Clients : \A f \in {"join_r1", "join_r2"} :
       FrameStep(c, f) =>
         LET i == InstanceOf(c)
             r == JoinRoomOf(f)
         IN /\ Len(sent'[c]) = 2
            /\ sent'[c][1].type = DOCUMENT_STATE
            /\ sent'[c][1].roomId = r
            /\ sent'[c][2] = AckYouJoined(r, c)
            /\ \A d \in Clients \ {c} :
                 OpenMember(i, d, r) => sent'[d] = << AckJoined(r, c) >>]_vars

\* A client has joined a room that has another member with an open socket,
\* which has been told.
C31_Witness ==
  /\ JoinStep
  /\ Len(sent[last.c]) = 2
  /\ \E d \in Clients \ {last.c} :
       /\ OpenMember(last.i, d, last.roomId)
       /\ sent[d] = << AckJoined(last.roomId, last.c) >>

\* The frames whose kind is SYNC_UPDATE or a kind the gateway does not know.
IgnoredFrames == {"sync_r1", "ping_r1"}

\* C32: a frame of kind SYNC_UPDATE or of an unknown kind changes no
\* document, room record, member set, client record, subscription or
\* connection, publishes nothing, starts nothing and sends nothing.
C32_IgnoredKinds ==
  [][\A c \in Clients : \A f \in IgnoredFrames :
       FrameStep(c, f) =>
         /\ UNCHANGED << documents, rooms, roomClients, clients, subscriptions,
                         clientConnections, bus, pending >>
         /\ \A d \in Clients : sent'[d] = <<>>]_vars

\* A member of a room with another open member has sent a SYNC_UPDATE frame.
C32_Witness ==
  /\ last.op = "message"
  /\ last.f = "sync_r1"
  /\ clients[last.i][last.c].exists
  /\ clientConnections[last.i][last.c] = "open"
  /\ \E d \in Clients \ {last.c} : OpenMember(last.i, d, R1)

(***************************************************************************)
(* Conflicting field patches: a1 on i1 and b1 on i2 join r1 and each sends  *)
(* a patch that writes field 1.                                            *)
(***************************************************************************)
ConflictClients == {"a1", "b1"}
ConflictFrames(c) == IF c = "a1" THEN {"join_r1", "update_r1_P1"}
                     ELSE {"join_r1", "update_r1_P2"}

NextConflict ==
  \/ \E c \in ConflictClients : Connect(c)
  \/ \E c \in ConflictClients : \E f \in ConflictFrames(c) :
       ClientFrame(c, f, MaxConflictFrames)
  \/ \E i \in Instances : SubscribeDone(i)
  \/ \E i \in Instances : PublishDone(i)
  \/ \E i \in Instances : Deliver(i)

SpecConflict == Init /\ [][NextConflict]_vars

\* The fields a patch frame writes, by the frame and by the base64 text a bus
\* message carries; fields as they are once patch p is written over them.
PatchFrameSet == {"update_r1_P1", "update_r1_P2"}
PatchOfFrame(f) == IF f = "update_r1_P1" THEN [k \in {1} |-> 1]
                   ELSE [k \in {1, 2} |-> 2]
PatchOfText(b64) == IF b64 = toBase64(P1) THEN [k \in {1} |-> 1]
                    ELSE [k \in {1, 2} |-> 2]
Overwritten(fields, p) ==
  [k \in Keys |-> IF k \in DOMAIN p THEN p[k] ELSE fields[k]]

\* The step hands the head of instance i's bus queue to handleRedisUpdate.
DeliverStep(i) ==
  /\ bus[i] # <<>>
  /\ bus'[i] = Tail(bus[i])
  /\ last'.op = "redis"
  /\ last'.i = i

\* C33: on each instance a patch, whether a local client sent it or the bus
\* delivered it from another instance, overwrites the fields it names
\* whatever they held, so a field holds what the patch applied last on that
\* instance wrote.
C33_PatchLastApplyWins ==
  /\ [][\A c \in Clients : \A f \in PatchFrameSet :
          FrameStep(c, f) =>
            documents'[InstanceOf(c)][R1].doc.fields =
              Overwritten(documents[InstanceOf(c)][R1].doc.fields,
                          PatchOfFrame(f))]_vars
  /\ [][\A i \in Instances :
          (/\ DeliverStep(i)
           /\ Head(bus[i]).instanceId # i
           /\ Head(bus[i]).update \in {toBase64(P1), toBase64(P2)}) =>
            documents'[i][R1].doc.fields =
              Overwritten(documents[i][R1].doc.fields,
                          PatchOfText(Head(bus[i]).update))]_vars

\* Both instances have a member in r1, no publish or subscribe has failed,
\* every message has been delivered, and the documents of r1 differ in
\* field 1.
C33_Witness ==
  /\ Quiescent
  /\ ~faults
  /\ HasLocalMember("i1", R1)
  /\ HasLocalMember("i2", R1)
  /\ documents["i1"][R1].doc.fields[1] = 2
  /\ documents["i2"][R1].doc.fields[1] = 1

(***************************************************************************)
(* The path an update takes: the decoded bytes of an update, padded with   *)
(* white space, as a client sends them or as the bus delivers them.        *)
(***************************************************************************)
\* A space and a vertical tab: trim() removes both, JSON.parse skips only
\* the space.
ClassifyPads == {<<>>, <<32>>, <<11>>, <<32, 32>>, <<32, 11>>, <<11, 32>>,
                 <<11, 11>>}
\* Merge updates, patches, bytes that are neither, no bytes, and two texts
\* that begin with a brace and are not JSON: {not json and {
ClassifyBodies == {U1, U2, P1, P2, BadUpdate, <<>>, TxtNotJson, <<123>>}
ClassifyInputs ==
  {[buffer |-> pad \o body, fromClient |-> fc] :
     pad \in ClassifyPads, body \in ClassifyBodies, fc \in BOOLEAN}

InitClassify ==
  InitSystem /\ InitService /\ arg \in ClassifyInputs /\ res = NoResult

ClassifyCall ==
  /\ ~res.called
  /\ res' = [called |-> TRUE,
             value |-> appliedThrough(St("i1"), R1, arg.buffer, arg.fromClient)]
  /\ UNCHANGED << system, arg, service >>

SpecClassify == InitClassify /\ [][ClassifyCall]_vars

\* C34: bytes that, trimmed, begin with '{' are applied through the patch
\* path, and all other bytes, if there are any, through the merge path.
C34_Classification ==
  res.called =>
    /\ LooksLikeJson(arg.buffer) => res.value = "applyJsonUpdate"
    /\ (~LooksLikeJson(arg.buffer) /\ arg.buffer # <<>>)
         => res.value = "applyUpdate"

(***************************************************************************)
(* CrdtService.applyJsonUpdate on one document, for sequences of patches   *)
(***************************************************************************)
\* The patches: every object whose keys are fields of the map, the empty
\* object among them, with two values.
LwwPatches == UNION {[D -> 1..2] : D \in SUBSET Keys}

\* applyJsonUpdate(R1, p) on the document store of i1; arg is the sequence of
\* the patches applied so far.
LwwApply(p) ==
  /\ Len(arg) < MaxLwwLen
  /\ arg' = Append(arg, p)
  /\ documents' =
       [documents EXCEPT !["i1"] = applyJsonUpdate(St("i1"), R1, p).st.documents]
  /\ UNCHANGED << rooms, roomClients, clients, clientConnections,
                  subscriptions, channels, bus, pending, sent, last, nframes,
                  everDeleted, faults, invalidSeen, threwSeen, subscribeCalls, res,
                  service >>

NextLww == \E p \in LwwPatches : LwwApply(p)

SpecLww == Init /\ [][NextLww]_vars

\* The value the last patch of s that names k gives it; 0 if none names it.
RECURSIVE LastWritten(_, _)
LastWritten(s, k) ==
  IF s = <<>> THEN 0
  ELSE IF k \in DOMAIN s[Len(s)] THEN s[Len(s)][k]
  ELSE LastWritten(SubSeq(s, 1, Len(s) - 1), k)

LwwFields == IF documents["i1"][R1].exists
             THEN documents["i1"][R1].doc.fields ELSE EmptyDoc.fields

\* C35: after any sequence of patches every field holds the value of the last
\* patch that names it, and a patch changes no field it does not name.
C35_PatchLastWriteWins ==
  /\ [](\A k \in Keys : LwwFields[k] = LastWritten(arg, k))
  /\ [][\A k \in Keys :
          k \notin DOMAIN arg'[Len(arg')] => LwwFields'[k] = LwwFields[k]]_vars

\* Two fields are set, one of them is overwritten, and an empty patch follows.
C35_Witness ==
  /\ Len(arg) = 3
  /\ DOMAIN arg[1] = Keys /\ arg[1][1] = 1 /\ arg[1][2] = 2
  /\ DOMAIN arg[2] = {1} /\ arg[2][1] = 2
  /\ DOMAIN arg[3] = {}
  /\ LwwFields = [k \in Keys |-> 2]

(***************************************************************************)
(* The update counter of a room.                                           *)
(***************************************************************************)
\* The step handles a DOCUMENT_UPDATE frame of a client of instance i whose
\* update, for room r, the document store applies without throwing.
FrameApplies(i, r) ==
  /\ nframes' = nframes + 1
  /\ last'.op = "message"
  /\ last'.i = i
  /\ LET m == decodeData(FrameData(last'.f)) IN
       /\ m.ok
       /\ m.value.type = DOCUMENT_UPDATE
       /\ m.value.roomId = r
       /\ m.value.payload.present
       /\ fromBase64(m.value.payload.update) # <<>>
       /\ ~applyDecoded(St(i), r, fromBase64(m.value.payload.update)).threw

\* The step hands instance i a bus message of another instance whose update,
\* for room r, the document store applies without throwing.
BusApplies(i, r) ==
  /\ DeliverStep(i)
  /\ LET m == Head(bus[i]) IN
       /\ m.roomId = r
       /\ m.instanceId # i
       /\ fromBase64(m.update) # <<>>
       /\ ~applyDecoded(St(i), r, fromBase64(m.update)).threw

\* C36: while a room record exists its updatesCount grows by one with each
\* update applied to the room's document, from a client or from the bus, and
\* by nothing else; a new record starts at 0; an update applied for a room
\* without a record changes nothing in the room registry.
C36_UpdatesCount ==
  [][\A i \in Instances : \A r \in Rooms :
       LET applied == FrameApplies(i, r) \/ BusApplies(i, r) IN
       /\ (rooms[i][r].exists /\ rooms'[i][r].exists)
            => rooms'[i][r].updatesCount =
                 rooms[i][r].updatesCount + (IF applied THEN 1 ELSE 0)
       /\ (~rooms[i][r].exists /\ rooms'[i][r].exists)
            => rooms'[i][r].updatesCount = 0
       /\ (~rooms[i][r].exists /\ applied)
            => /\ rooms'[i] = rooms[i]
               /\ roomClients'[i] = roomClients[i]
               /\ clients'[i] = clients[i]]_vars

\* The bus has handed i2 an update that a client of i1 sent: each instance
\* has counted it once.
C36_Witness ==
  /\ last.op = "redis"
  /\ last.i = "i2"
  /\ last.ok
  /\ rooms["i1"][R1].exists /\ rooms["i1"][R1].updatesCount = 1
  /\ rooms["i2"][R1].exists /\ rooms["i2"][R1].updatesCount = 1

(***************************************************************************)
(* Replication does not loop.                                              *)
(***************************************************************************)
\* C37: only the handling of a client's DOCUMENT_UPDATE that is applied
\* publishes, once: it suspends one handler on publish and puts one message
\* on the queue of each subscribed instance (none if the publish fails); no
\* other step, a bus delivery in particular, adds a message or a suspended
\* publish; and the system becomes quiescent for good.
C37_NoReplicationLoop ==
  /\ [][\A i \in Instances :
          LET sends == \E r \in Rooms : FrameApplies(i, r) IN
          /\ Len(pending'[i].publish) =
               Len(pending[i].publish)
                 + (IF sends THEN 1 ELSE 0)
                 - (IF PublishDoneStep(i) THEN 1 ELSE 0)
          /\ \A j \in Instances :
               Len(bus'[j]) =
                 Len(bus[j])
                   + (IF /\ \E k \in Instances, r \in Rooms :
                              FrameApplies(k, r) /\ r \in channels[j]
                         /\ last'.ok
                      THEN 1 ELSE 0)
                   - (IF last'.op = "redis" /\ last'.i = j THEN 1 ELSE 0)]_vars
  /\ <>[]Quiescent

\* An update of a1 has been delivered to the other instance and applied
\* there, and nothing is left on the bus or suspended.
C37_Witness ==
  /\ Quiescent
  /\ last.op = "redis"
  /\ last.i = "i2"
  /\ last.ok
  /\ documents["i2"][R1].exists
  /\ 1 \in documents["i2"][R1].doc.ops

(***************************************************************************)
(* A join while a DOCUMENT_UPDATE handler is suspended on publish.         *)
(***************************************************************************)
\* The document a DOCUMENT_STATE message carries holds the merge update u.
StateHolds(msg, u) ==
  LET d == YDecode(fromBase64(msg.update))
      x == YDecode(fromBase64(u))
  IN d.ok /\ x.ok /\ YMerge([ops |-> d.ops, fields |-> d.fields],
                            [ops |-> x.ops, fields |-> x.fields])
                       = [ops |-> d.ops, fields |-> d.fields]

\* C38: a client that has just received, on joining, a DOCUMENT_STATE that
\* holds an update is not sent that update as a DOCUMENT_UPDATE by the next
\* step.
C38_NoDoubleDelivery ==
  [][\A c \in Clients :
       (/\ JoinStep
        /\ last.c = c
        /\ Len(sent[c]) >= 1
        /\ sent[c][1].type = DOCUMENT_STATE)
         => \A k \in 1..Len(sent'[c]) :
              sent'[c][k].type = DOCUMENT_UPDATE
                => ~StateHolds(sent[c][1], sent'[c][k].update)]_vars

(***************************************************************************)
(* A subscribe that failed.                                                *)
(***************************************************************************)
\* C39: a JOIN_ROOM for a room whose channel Redis does not deliver to the
\* instance, and for which no subscribe of the instance is under way, calls
\* redis.subscribe for the channel.
C39_SubscribeRetried ==
  [][\A c \in Clients : \A f \in {"join_r1", "join_r2"} :
       LET i == InstanceOf(c)
           r == JoinRoomOf(f)
       IN (/\ FrameStep(c, f)
           /\ r \notin channels[i]
           /\ \A k \in 1..Len(pending[i].subscribe) :
                pending[i].subscribe[k].roomId # r)
            => subscribeCalls'[i][r] = subscribeCalls[i][r] + 1]_vars

(***************************************************************************)
(* The room registry and the connection map.                               *)
(***************************************************************************)
\* C40: between handler steps every client with a client record has an entry
\* in the connection map of its instance, and the clientCount of every room
\* record is the number of client records whose roomId is that room.
C40_RegistryConsistent ==
  \A i \in Instances :
    /\ \A c \in Clients :
         clients[i][c].exists => clientConnections[i][c] \in {"open", "closing"}
    /\ \A r \in Rooms :
         rooms[i][r].exists
           => rooms[i][r].clientCount =
                Cardinality({c \in Clients : /\ clients[i][c].exists
                                             /\ clients[i][c].roomId = r})
==============================================================================
